---- MODULE Spec2Model ----
(***************************************************************************)
(* Model of the purchase insight engine of the finance dashboard           *)
(* (src/src/services/purchaseAnalyzer.ts): the classifier analyzePurchase, *)
(* the aggregator analyzeAllPurchases and the predictor                    *)
(* generateMonthlyPrediction; of its store useFinanceStore; of its         *)
(* authentication provider with the login form; and of the row parser of   *)
(* its file upload.                                                        *)
(*                                                                         *)
(* Conventions.                                                            *)
(*  - An amount is a whole number of cents (34.67 is 3467); the code's     *)
(*    thresholds are written in cents (amount > 100 is amount > 10000).    *)
(*  - A string that the code inspects (a description) is a sequence of     *)
(*    one-character strings, so that toLowerCase and includes are          *)
(*    computed character by character.                                     *)
(*  - A date is a local calendar time [year, month, day, hour]; minutes    *)
(*    and below are not modelled.                                          *)
(*  - A quotient the code leaves as a fraction is a record [num, den] in   *)
(*    lowest terms.                                                        *)
(***************************************************************************)
EXTENDS Integers, Sequences, FiniteSets, TLC

VARIABLES
    tx,            \* the transaction handed to analyzePurchase
    analysis,      \* <<>> or <<the PurchaseAnalysis returned for tx>>
    transactions,  \* the transaction list handed to analyzeAllPurchases
    now,           \* the ambient current date (new Date())
    insights,      \* <<>> or <<the PurchaseInsights returned for transactions>>
    prediction,    \* <<>> or <<the MonthlyPrediction returned for transactions>>
    store,         \* the state of useFinanceStore
    storage,       \* <<>> or <<the 'finsense-storage' item of local storage>>
    session,       \* the number of the page load the store lives in
    authStorage,   \* the users, passwords, token and current user in local storage
    auth,          \* the state of AuthProvider: user and isLoading
    calls,         \* the calls of login and signup that are in their delay
    screen,        \* the login form on screen, if any, and its state
    outcomes,      \* the calls that have returned, with their results
    row,           \* the row of an uploaded file handed to the parser
    parsed         \* <<>> or <<what the parser made of row>>

engineVars == <<tx, analysis, transactions, now, insights, prediction>>

storeVars == <<store, storage, session>>

authVars == <<authStorage, auth, calls, screen, outcomes>>

uploadVars == <<row, parsed>>

vars ==
    <<tx, analysis, transactions, now, insights, prediction, store, storage, session,
      authStorage, auth, calls, screen, outcomes, row, parsed>>

-----------------------------------------------------------------------------
(* Strings *)

UpperChars == <<"A", "B", "C", "D", "E", "F", "G", "H", "I", "J", "K", "L", "M", "N", "O", "P", "Q", "R", "S", "T", "U", "V", "W", "X", "Y", "Z">>

LowerChars == <<"a", "b", "c", "d", "e", "f", "g", "h", "i", "j", "k", "l", "m", "n", "o", "p", "q", "r", "s", "t", "u", "v", "w", "x", "y", "z">>

toLowerChar(c) ==
    IF \E i \in 1..Len(UpperChars) : UpperChars[i] = c
    THEN LowerChars[CHOOSE i \in 1..Len(UpperChars) : UpperChars[i] = c]
    ELSE c

toLowerCase(s) == [i \in 1..Len(s) |-> toLowerChar(s[i])]

includes(s, sub) ==
    \E i \in 0..(Len(s) - Len(sub)) : SubSeq(s, i + 1, i + Len(sub)) = sub

RECURSIVE join(_, _)
join(strs, sep) ==
    IF Len(strs) = 0 THEN ""
    ELSE IF Len(strs) = 1 THEN strs[1]
    ELSE strs[1] \o sep \o join(Tail(strs), sep)

Kw_book == <<"b", "o", "o", "k">>
Kw_course == <<"c", "o", "u", "r", "s", "e">>
Kw_education == <<"e", "d", "u", "c", "a", "t", "i", "o", "n">>
Kw_gym == <<"g", "y", "m">>
Kw_health == <<"h", "e", "a", "l", "t", "h">>
Kw_medical == <<"m", "e", "d", "i", "c", "a", "l">>
Kw_subscription == <<"s", "u", "b", "s", "c", "r", "i", "p", "t", "i", "o", "n">>
Kw_monthly == <<"m", "o", "n", "t", "h", "l", "y">>
Kw_cancel == <<"c", "a", "n", "c", "e", "l">>
Kw_refund == <<"r", "e", "f", "u", "n", "d">>
Kw_unused == <<"u", "n", "u", "s", "e", "d">>

-----------------------------------------------------------------------------
(* Dates (date-fns on local time) *)

IsLeapYear(y) == (y % 4 = 0 /\ y % 100 # 0) \/ y % 400 = 0

DaysInMonth(y, m) ==
    IF m = 2 THEN (IF IsLeapYear(y) THEN 29 ELSE 28)
    ELSE IF m \in {4, 6, 9, 11} THEN 30 ELSE 31

MonthIndex(d) == d.year * 12 + (d.month - 1)

Min(a, b) == IF a < b THEN a ELSE b

Max(a, b) == IF a > b THEN a ELSE b

\* addMonths: the same time of day on the same day of the target month, the
\* day clamped to the last day of that month
addMonths(d, n) ==
    LET idx == MonthIndex(d) + n
        y == idx \div 12
        m == (idx % 12) + 1
    IN [year |-> y, month |-> m, day |-> Min(d.day, DaysInMonth(y, m)), hour |-> d.hour]

subMonths(d, n) == addMonths(d, 0 - n)

startOfMonth(d) == [year |-> d.year, month |-> d.month, day |-> 1, hour |-> 0]

\* 23:59:59.999 of the last day, i.e. the last hour at this granularity
endOfMonth(d) ==
    [year |-> d.year, month |-> d.month, day |-> DaysInMonth(d.year, d.month), hour |-> 23]

DateKey(d) == ((MonthIndex(d) * 32) + d.day) * 24 + d.hour

DateGE(a, b) == DateKey(a) >= DateKey(b)

DateLE(a, b) == DateKey(a) <= DateKey(b)

DateLT(a, b) == DateKey(a) < DateKey(b)

getHours(d) == d.hour

-----------------------------------------------------------------------------
(* Classifier: analyzePurchase *)

TransactionCategory ==
    <<"food", "housing", "transportation", "entertainment", "utilities",
      "shopping", "healthcare", "income", "other">>

goodPurchaseCriteria ==
    [essential |-> {"food", "housing", "utilities", "healthcare", "transportation"}]

\* the income short-circuit
incomeAnalysis(transaction) ==
    [id |-> transaction.id,
     transaction |-> transaction,
     classification |-> "good",
     score |-> 100,
     reasoning |-> "Income is always positive for financial health",
     category |-> "essential",
     impact |-> "positive"]

\* The running state of the expense rules: s = [score, reasons, analysisCategory]
initialRuleState ==
    [score |-> 0, reasons |-> <<>>, analysisCategory |-> "entertainment"]

hit(s, delta, reason) ==
    [s EXCEPT !.score = @ + delta, !.reasons = Append(@, reason)]

ruleEssential(t, s) ==
    IF t.category \in goodPurchaseCriteria.essential
    THEN LET s1 == [hit(s, 30, "Essential category") EXCEPT !.analysisCategory = "essential"]
         IN IF t.category = "food" /\ t.amount > 10000
            THEN hit(s1, -20, "High food expense")
            ELSE IF t.category = "utilities" /\ t.amount > 30000
            THEN hit(s1, -15, "High utility bill")
            ELSE s1
    ELSE s

isInvestment(desc) ==
    \/ includes(desc, Kw_book) \/ includes(desc, Kw_course)
    \/ includes(desc, Kw_education) \/ includes(desc, Kw_gym)
    \/ includes(desc, Kw_health) \/ includes(desc, Kw_medical)

ruleInvestmentLarge(t, s) ==
    IF isInvestment(toLowerCase(t.description))
    THEN [hit(s, 60, "Investment in personal development") EXCEPT !.analysisCategory = "investment"]
    ELSE s

ruleInvestment(t, s) ==
    IF isInvestment(toLowerCase(t.description))
    THEN [hit(s, 40, "Investment in personal development") EXCEPT !.analysisCategory = "investment"]
    ELSE s

isLateNightEveningOnly(hour) == hour > 22

isLateNight(hour) == hour < 6 \/ hour > 22

ruleLateNightKeepCategory(t, s) ==
    IF isLateNight(getHours(t.date))
    THEN hit(s, -25, "Late night purchase (potential impulse)")
    ELSE s

ruleLateNight(t, s) ==
    IF isLateNight(getHours(t.date))
    THEN [hit(s, -25, "Late night purchase (potential impulse)") EXCEPT !.analysisCategory = "impulse"]
    ELSE s

ruleShoppingInclusive(t, s) ==
    IF t.category = "shopping"
    THEN IF t.amount >= 20000
         THEN [hit(s, -30, "Large shopping expense") EXCEPT !.analysisCategory = "impulse"]
         ELSE IF t.amount <= 5000
         THEN hit(s, 10, "Reasonable shopping amount")
         ELSE s
    ELSE s

ruleShopping(t, s) ==
    IF t.category = "shopping"
    THEN IF t.amount > 20000
         THEN [hit(s, -30, "Large shopping expense") EXCEPT !.analysisCategory = "impulse"]
         ELSE IF t.amount < 5000
         THEN hit(s, 10, "Reasonable shopping amount")
         ELSE s
    ELSE s

ruleEntertainment(t, s) ==
    IF t.category = "entertainment"
    THEN LET s1 == IF t.amount > 10000 THEN hit(s, -20, "High entertainment cost")
                   ELSE IF t.amount < 3000 THEN hit(s, 15, "Moderate entertainment expense")
                   ELSE s
         IN [s1 EXCEPT !.analysisCategory = "entertainment"]
    ELSE s

isRecurring(desc) == includes(desc, Kw_subscription) \/ includes(desc, Kw_monthly)

ruleSubscription(t, s) ==
    IF isRecurring(toLowerCase(t.description))
    THEN IF t.amount > 5000
         THEN [hit(s, -15, "Expensive recurring subscription") EXCEPT !.analysisCategory = "waste"]
         ELSE hit(s, 5, "Reasonable subscription service")
    ELSE s

ruleAmountSilent(t, s) ==
    IF t.amount > 100000 THEN [s EXCEPT !.score = @ - 40]
    ELSE IF t.amount > 50000 THEN [s EXCEPT !.score = @ - 20]
    ELSE IF t.amount < 2000 THEN [s EXCEPT !.score = @ + 10]
    ELSE s

ruleAmount(t, s) ==
    IF t.amount > 100000 THEN hit(s, -40, "Very large expense")
    ELSE IF t.amount > 50000 THEN hit(s, -20, "Large expense")
    ELSE IF t.amount < 2000 THEN hit(s, 10, "Small, manageable amount")
    ELSE s

isWaste(desc) ==
    includes(desc, Kw_cancel) \/ includes(desc, Kw_refund) \/ includes(desc, Kw_unused)

ruleWaste(t, s) ==
    IF isWaste(toLowerCase(t.description))
    THEN [hit(s, -50, "Potentially wasteful purchase") EXCEPT !.analysisCategory = "waste"]
    ELSE s

\* all expense rules in the order of the code
applyRules(t) ==
    ruleWaste(t, ruleAmount(t, ruleSubscription(t, ruleEntertainment(t,
        ruleShopping(t, ruleLateNight(t, ruleInvestment(t,
            ruleEssential(t, initialRuleState))))))))

clampNone(score) == score

\* Math.max(-100, Math.min(100, score))
clamp(score) == Max(-100, Min(100, score))

classifyStrict(score) ==
    IF score > 20 THEN [classification |-> "good", impact |-> "positive"]
    ELSE IF score < -20 THEN [classification |-> "bad", impact |-> "negative"]
    ELSE [classification |-> "neutral", impact |-> "neutral"]

classify(score) ==
    IF score >= 20 THEN [classification |-> "good", impact |-> "positive"]
    ELSE IF score <= -20 THEN [classification |-> "bad", impact |-> "negative"]
    ELSE [classification |-> "neutral", impact |-> "neutral"]

expenseAnalysis(transaction) ==
    LET s == applyRules(transaction)
        score == clamp(s.score)
        reasoning == join(s.reasons, ", ")
        c == classify(score)
    IN [id |-> transaction.id,
        transaction |-> transaction,
        classification |-> c.classification,
        score |-> score,
        reasoning |-> IF reasoning = "" THEN "Standard transaction" ELSE reasoning,
        category |-> s.analysisCategory,
        impact |-> c.impact]

analyzePurchaseNoShortCircuit(transaction) == expenseAnalysis(transaction)

analyzePurchase(transaction) ==
    IF transaction.type = "income"
    THEN incomeAnalysis(transaction)
    ELSE expenseAnalysis(transaction)

-----------------------------------------------------------------------------
(* Arithmetic helpers *)

RECURSIVE gcd(_, _)
gcd(a, b) == IF b = 0 THEN a ELSE gcd(b, a % b)

Abs(a) == IF a < 0 THEN 0 - a ELSE a

\* the quotient n / d (d > 0) in lowest terms
Rat(n, d) ==
    LET g == gcd(Abs(n), d)
    IN [num |-> n \div g, den |-> d \div g]

RatSub(a, b) == Rat(a.num * b.den - b.num * a.den, a.den * b.den)

\* Math.round of the quotient n / d (d > 0): the nearest integer, halves up
round(n, d) == (2 * n + d) \div (2 * d)

RECURSIVE sumAmount(_)
sumAmount(ts) == IF ts = <<>> THEN 0 ELSE ts[1].amount + sumAmount(Tail(ts))

RECURSIVE sumSeq(_)
sumSeq(xs) == IF xs = <<>> THEN 0 ELSE xs[1] + sumSeq(Tail(xs))

-----------------------------------------------------------------------------
(* Predictor: generateMonthlyPrediction *)

MonthNames ==
    <<"January", "February", "March", "April", "May", "June", "July",
      "August", "September", "October", "November", "December">>

\* format(d, 'MMMM yyyy'), kept as the pair of the month name and the year
formatMonthYear(d) == <<MonthNames[d.month], d.year>>

recentTransactionsAnyType(ts, today) ==
    SelectSeq(ts, LAMBDA t : DateGE(t.date, subMonths(today, 3)))

\* expense transactions dated at or after subMonths(now, 3)
recentTransactions(ts, today) ==
    SelectSeq(ts, LAMBDA t : DateGE(t.date, subMonths(today, 3)) /\ t.type = "expense")

\* the total of a category in the calendar month i months before today
monthlyTotal(recent, today, i, category) ==
    LET monthStart == startOfMonth(subMonths(today, i))
        monthEnd == endOfMonth(subMonths(today, i))
    IN sumAmount(SelectSeq(recent, LAMBDA t :
           /\ t.category = category
           /\ DateGE(t.date, monthStart)
           /\ DateLE(t.date, monthEnd)))

\* one total is pushed per category in each of the three passes of the loop,
\* the current month first
categoryTotals(recent, today) ==
    [c \in 1..Len(TransactionCategory) |->
        [i \in 1..3 |-> monthlyTotal(recent, today, i - 1, TransactionCategory[c])]]

trendOfLastTwo(amounts) ==
    IF Len(amounts) >= 2
    THEN IF 10 * amounts[1] > 11 * amounts[2] THEN "increasing"
         ELSE IF 10 * amounts[1] < 9 * amounts[2] THEN "decreasing"
         ELSE "stable"
    ELSE "stable"

\* amounts[0] against amounts[amounts.length - 1], with factors 1.1 and 0.9
trendOf(amounts) ==
    IF Len(amounts) >= 2
    THEN IF 10 * amounts[1] > 11 * amounts[Len(amounts)] THEN "increasing"
         ELSE IF 10 * amounts[1] < 9 * amounts[Len(amounts)] THEN "decreasing"
         ELSE "stable"
    ELSE "stable"

\* tenths by which the average is multiplied
trendFactor(trend) ==
    IF trend = "increasing" THEN 11 ELSE IF trend = "decreasing" THEN 9 ELSE 10

\* Math.min(90, amounts.length * 30)
confidenceOf(amounts) == Min(90, Len(amounts) * 30)

\* estimated is in whole currency units: the average of the totals (cents),
\* times the trend factor, rounded
categoryPrediction(category, amounts) ==
    IF Len(amounts) = 0
    THEN [category |-> category, estimated |-> 0, confidence |-> 0, trend |-> "stable"]
    ELSE LET trend == trendOf(amounts)
         IN [category |-> category,
             estimated |-> round(sumSeq(amounts) * trendFactor(trend), 1000 * Len(amounts)),
             confidence |-> confidenceOf(amounts),
             trend |-> trend]

keepAll(item) == TRUE

keepEstimated(item) == item.estimated > 0

categoryBreakdownOf(recent, today) ==
    LET totals == categoryTotals(recent, today)
        all == [c \in 1..Len(TransactionCategory) |->
                   categoryPrediction(TransactionCategory[c], totals[c])]
    IN SelectSeq(all, keepEstimated)

sumEstimatedTail(items) ==
    IF items = <<>> THEN 0
    ELSE LET RECURSIVE rest(_)
             rest(xs) == IF xs = <<>> THEN 0 ELSE xs[1].estimated + rest(Tail(xs))
         IN rest(Tail(items))

RECURSIVE sumEstimated(_)
sumEstimated(items) ==
    IF items = <<>> THEN 0 ELSE items[1].estimated + sumEstimated(Tail(items))

\* total (cents) of the recent expenses of the previous calendar month
previousMonthTotalOf(recent, today) ==
    sumAmount(SelectSeq(recent, LAMBDA t :
        /\ DateGE(t.date, startOfMonth(subMonths(today, 1)))
        /\ DateLE(t.date, endOfMonth(subMonths(today, 1)))))

riskLevelInclusive(totalEstimated, previousMonthTotal) ==
    IF 1000 * totalEstimated >= 12 * previousMonthTotal THEN "high"
    ELSE IF 1000 * totalEstimated >= 11 * previousMonthTotal THEN "medium"
    ELSE "low"

\* totalEstimated (units) against previousMonthTotal (cents) * 1.2 and * 1.1
riskLevelOf(totalEstimated, previousMonthTotal) ==
    IF 1000 * totalEstimated > 12 * previousMonthTotal THEN "high"
    ELSE IF 1000 * totalEstimated > 11 * previousMonthTotal THEN "medium"
    ELSE "low"

\* reduce((max, item) => item.estimated > max.estimated ? item : max, breakdown[0]);
\* <<>> stands for undefined (empty breakdown)
RECURSIVE highestFrom(_, _)
highestFrom(items, max) ==
    IF items = <<>> THEN max
    ELSE highestFrom(Tail(items), IF items[1].estimated > max.estimated THEN items[1] ELSE max)

highestCategoryLast(breakdown) ==
    IF breakdown = <<>> THEN <<>> ELSE <<breakdown[Len(breakdown)]>>

highestCategoryOf(breakdown) ==
    IF breakdown = <<>> THEN <<>> ELSE <<highestFrom(breakdown, breakdown[1])>>

RECURSIVE upwardRecommendations(_)
upwardRecommendations(items) ==
    IF items = <<>> THEN <<>>
    ELSE (IF items[1].trend = "increasing" /\ items[1].estimated > 200
          THEN <<items[1].category \o " spending is trending upward">>
          ELSE <<>>) \o upwardRecommendations(Tail(items))

noFallback(recs) == recs

fallback(recs) ==
    IF Len(recs) = 0
    THEN <<"Your spending patterns look stable for next month">>
    ELSE recs

recommendationsMonitorFirst(breakdown, totalEstimated, riskLevel) ==
    LET highest == highestCategoryOf(breakdown)
        r1 == IF riskLevel = "high"
              THEN <<"Consider reducing discretionary spending this month">>
              ELSE <<>>
        r2 == IF highest # <<>> /\ 10 * highest[1].estimated > 3 * totalEstimated
              THEN <<"Monitor " \o highest[1].category
                        \o " spending - it's your largest predicted expense">>
              ELSE <<>>
    IN fallback(r2 \o r1 \o upwardRecommendations(breakdown))

recommendationsOf(breakdown, totalEstimated, riskLevel) ==
    LET highest == highestCategoryOf(breakdown)
        r1 == IF riskLevel = "high"
              THEN <<"Consider reducing discretionary spending this month">>
              ELSE <<>>
        r2 == IF highest # <<>> /\ 10 * highest[1].estimated > 3 * totalEstimated
              THEN <<"Monitor " \o highest[1].category
                        \o " spending - it's your largest predicted expense">>
              ELSE <<>>
    IN fallback(r1 \o r2 \o upwardRecommendations(breakdown))

generateMonthlyPrediction(ts, today) ==
    LET recent == recentTransactions(ts, today)
        breakdown == categoryBreakdownOf(recent, today)
        totalEstimated == sumEstimated(breakdown)
        riskLevel == riskLevelOf(totalEstimated, previousMonthTotalOf(recent, today))
    IN [month |-> formatMonthYear(addMonths(today, 1)),
        totalEstimated |-> totalEstimated,
        categoryBreakdown |-> breakdown,
        riskLevel |-> riskLevel,
        recommendations |-> recommendationsOf(breakdown, totalEstimated, riskLevel)]

-----------------------------------------------------------------------------
(* Aggregator and trend analyzer: analyzeAllPurchases *)

analysesOfNormalised(ts) ==
    [i \in 1..Len(ts) |->
        analyzePurchase([ts[i] EXCEPT !.description = toLowerCase(@)])]

analysesOf(ts) == [i \in 1..Len(ts) |-> analyzePurchase(ts[i])]

withClassificationOfExpenses(analyses, c) ==
    SelectSeq(analyses, LAMBDA a : a.classification = c /\ a.transaction.type = "expense")

withClassification(analyses, c) ==
    SelectSeq(analyses, LAMBDA a : a.classification = c)

RECURSIVE sumTransactionAmount(_)
sumTransactionAmount(ps) ==
    IF ps = <<>> THEN 0 ELSE ps[1].transaction.amount + sumTransactionAmount(Tail(ps))

totalValueAll(purchases) == sumTransactionAmount(purchases)

\* the sum of the amounts of the expense-type purchases of a list
totalValue(purchases) ==
    sumTransactionAmount(SelectSeq(purchases, LAMBDA p : p.transaction.type = "expense"))

goodBadRatioNoGuard(totalGoodValue, totalBadValue) ==
    IF totalBadValue > 0 THEN Rat(totalGoodValue, totalBadValue) ELSE Rat(10, 1)

\* totalBadValue > 0 ? totalGoodValue / totalBadValue : totalGoodValue > 0 ? 10 : 1
goodBadRatioOf(totalGoodValue, totalBadValue) ==
    IF totalBadValue > 0 THEN Rat(totalGoodValue, totalBadValue)
    ELSE IF totalGoodValue > 0 THEN Rat(10, 1) ELSE Rat(1, 1)

RECURSIVE sumScore(_)
sumScore(as) == IF as = <<>> THEN 0 ELSE as[1].score + sumScore(Tail(as))

\* the mean score of a list, 0 for the empty list
avgScore(as) == IF Len(as) > 0 THEN Rat(sumScore(as), Len(as)) ELSE Rat(0, 1)

\* analyses dated at or after subMonths(now, 1)
recentAnalysesOf(analyses, today) ==
    SelectSeq(analyses, LAMBDA a : DateGE(a.transaction.date, subMonths(today, 1)))

\* analyses dated at or after subMonths(now, 2) and before subMonths(now, 1)
olderAnalysesOf(analyses, today) ==
    SelectSeq(analyses, LAMBDA a :
        /\ DateGE(a.transaction.date, subMonths(today, 2))
        /\ DateLT(a.transaction.date, subMonths(today, 1)))

spendingPatternOf(improvementScore) ==
    IF improvementScore.num > 10 * improvementScore.den THEN "improving"
    ELSE IF improvementScore.num < (0 - 10) * improvementScore.den THEN "declining"
    ELSE "stable"

\* the keys of the count object, in the order of their first occurrence
RECURSIVE categoryKeys(_, _)
categoryKeys(ps, seen) ==
    IF ps = <<>> THEN seen
    ELSE categoryKeys(Tail(ps),
             IF \E i \in 1..Len(seen) : seen[i] = ps[1].category
             THEN seen ELSE Append(seen, ps[1].category))

categoryCount(ps, category) == Len(SelectSeq(ps, LAMBDA p : p.category = category))

RECURSIVE frequentEntries(_, _, _, _, _)
frequentEntries(keys, ps, threshold, prefix, suffix) ==
    IF keys = <<>> THEN <<>>
    ELSE (IF categoryCount(ps, keys[1]) >= threshold
          THEN <<prefix \o keys[1] \o suffix>> ELSE <<>>)
         \o frequentEntries(Tail(keys), ps, threshold, prefix, suffix)

riskAreasOf(badPurchases) ==
    frequentEntries(categoryKeys(badPurchases, <<>>), badPurchases, 3, "Frequent ", " purchases")

strengthsOfThree(goodPurchases, goodBadRatio) ==
    frequentEntries(categoryKeys(goodPurchases, <<>>), goodPurchases, 3,
                    "Strong ", " spending habits")
    \o (IF goodBadRatio.num > 2 * goodBadRatio.den
        THEN <<"Overall positive spending patterns">> ELSE <<>>)

strengthsOf(goodPurchases, goodBadRatio) ==
    frequentEntries(categoryKeys(goodPurchases, <<>>), goodPurchases, 5,
                    "Strong ", " spending habits")
    \o (IF goodBadRatio.num > 2 * goodBadRatio.den
        THEN <<"Overall positive spending patterns">> ELSE <<>>)

analyzeAllPurchases(ts, today) ==
    LET analyses == analysesOf(ts)
        goodPurchases == withClassification(analyses, "good")
        badPurchases == withClassification(analyses, "bad")
        neutralPurchases == withClassification(analyses, "neutral")
        totalGoodValue == totalValue(goodPurchases)
        totalBadValue == totalValue(badPurchases)
        goodBadRatio == goodBadRatioOf(totalGoodValue, totalBadValue)
        improvementScore == RatSub(avgScore(recentAnalysesOf(analyses, today)),
                                   avgScore(olderAnalysesOf(analyses, today)))
    IN [goodPurchases |-> goodPurchases,
        badPurchases |-> badPurchases,
        neutralPurchases |-> neutralPurchases,
        totalGoodValue |-> totalGoodValue,
        totalBadValue |-> totalBadValue,
        goodBadRatio |-> goodBadRatio,
        monthlyPrediction |-> generateMonthlyPrediction(ts, today),
        trends |-> [improvementScore |-> improvementScore,
                    spendingPattern |-> spendingPatternOf(improvementScore),
                    riskAreas |-> riskAreasOf(badPurchases),
                    strengths |-> strengthsOf(goodPurchases, goodBadRatio)]]

-----------------------------------------------------------------------------
(* Finance store: useFinanceStore with the persist middleware *)

\* {...base, ...updates}: the fields of updates replace those of base
spread(base, updates) ==
    [k \in DOMAIN base |-> IF k \in DOMAIN updates THEN updates[k] ELSE base[k]]

\* the state the store is created with; <<>> stands for null
initialState ==
    [user |-> <<>>,
     accounts |-> <<>>,
     transactions |-> <<>>,
     budgets |-> <<>>,
     notifications |-> <<>>,
     insights |-> <<>>,
     cashFlowForecast |-> <<>>,
     isLoading |-> FALSE,
     error |-> <<>>,
     demoMode |-> FALSE]

partializeWithTransactions(state) ==
    [demoMode |-> state.demoMode, user |-> state.user, transactions |-> state.transactions]

\* the part of the state that is written to local storage
partialize(state) == [demoMode |-> state.demoMode, user |-> state.user]

\* JSON.stringify of an object: the properties whose value is undefined are left out
stringifyObject(o) == {<<k, o[k]>> : k \in {f \in DOMAIN o : o[f] # "undefined"}}

UserKeys == {"id", "name", "email", "profileImage", "createdAt"}

\* the object read back by JSON.parse: a property that was left out reads undefined
parseObject(pairs, keys) ==
    [k \in keys |-> IF \E q \in pairs : q[1] = k
                    THEN (CHOOSE q \in pairs : q[1] = k)[2]
                    ELSE "undefined"]

serialize(part) ==
    [k \in DOMAIN part |->
        IF k = "user" /\ part[k] # <<>> THEN <<stringifyObject(part[k][1])>> ELSE part[k]]

deserialize(item) ==
    [k \in DOMAIN item |->
        IF k = "user" /\ item[k] # <<>> THEN <<parseObject(item[k][1], UserKeys)>> ELSE item[k]]

\* the item written after every set
persisted(state) == <<serialize(partialize(state))>>

\* creation of the store on a page load: the initial state, with the stored
\* part, if any, spread over it
rehydrate(item) ==
    IF item = <<>> THEN initialState ELSE spread(initialState, deserialize(item[1]))

\* [...].sort((a, b) => getTime(b.date) - getTime(a.date)): stable, newest first
RECURSIVE insertByDateDesc(_, _)
insertByDateDesc(sorted, t) ==
    IF sorted = <<>> THEN <<t>>
    ELSE IF DateKey(sorted[1].date) >= DateKey(t.date)
         THEN <<sorted[1]>> \o insertByDateDesc(Tail(sorted), t)
         ELSE <<t>> \o sorted

RECURSIVE sortByDateDesc(_)
sortByDateDesc(ts) ==
    IF ts = <<>> THEN <<>>
    ELSE insertByDateDesc(sortByDateDesc(SubSeq(ts, 1, Len(ts) - 1)), ts[Len(ts)])

mockUser ==
    [id |-> "demo-user-1", name |-> "Alex Johnson", email |-> "alex.johnson@demo.com",
     profileImage |-> "undefined", createdAt |-> "2024-01-01T00:00:00Z"]

otherUser ==
    [id |-> "user-2", name |-> "Sam Lee", email |-> "sam.lee@demo.com",
     profileImage |-> "avatar.png", createdAt |-> "2025-06-01T00:00:00Z"]

Users == {mockUser, otherUser}

mockAccounts == <<"acc-1", "acc-2", "acc-3", "acc-4">>

mockNotifications ==
    <<[id |-> "notif-1", isRead |-> FALSE],
      [id |-> "notif-2", isRead |-> FALSE],
      [id |-> "notif-3", isRead |-> TRUE]>>

StoreDates ==
    {[year |-> 2026, month |-> 1, day |-> 10, hour |-> 9],
     [year |-> 2026, month |-> 1, day |-> 20, hour |-> 9]}

StoreTransactions ==
    {[id |-> "txn-1", amount |-> 1000, type |-> "expense", date |-> d] : d \in StoreDates}
    \cup {[id |-> "txn-2", amount |-> 500000, type |-> "income", date |-> d] : d \in StoreDates}

StoreIds == {t.id : t \in StoreTransactions}

MaxStoreTransactions == 2

MaxNotifications == 1

\* generateMockTransactions: a list sorted newest first
mockTransactions ==
    sortByDateDesc(
        <<[id |-> "txn-1", amount |-> 1000, type |-> "expense",
           date |-> [year |-> 2026, month |-> 1, day |-> 10, hour |-> 9]],
          [id |-> "txn-2", amount |-> 500000, type |-> "income",
           date |-> [year |-> 2026, month |-> 1, day |-> 20, hour |-> 9]]>>)

\* the monthly insights, budgets and forecast are kept as the data they were
\* generated from
generateMonthlyInsights(ts) == <<[generatedFrom |-> ts]>>

generateMockBudgets(ts) == <<[generatedFrom |-> ts]>>

generateCashFlowForecast == <<"forecast">>

RECURSIVE balanceOf(_)
balanceOf(ts) ==
    IF ts = <<>> THEN 0
    ELSE (IF ts[1].type = "income" THEN ts[1].amount ELSE 0 - ts[1].amount)
         + balanceOf(Tail(ts))

\* set(partial) followed by the write of the persisted part
SetState(partial) ==
    /\ store' = spread(store, partial)
    /\ storage' = persisted(store')
    /\ UNCHANGED session
    /\ UNCHANGED <<engineVars, authVars, uploadVars>>

SetUser ==
    \E user \in Users : SetState([user |-> <<user>>])

ToggleDemoMode == SetState([demoMode |-> ~store.demoMode])

AddTransaction ==
    /\ Len(store.transactions) < MaxStoreTransactions
    /\ \E transaction \in StoreTransactions :
          SetState([transactions |-> sortByDateDesc(<<transaction>> \o store.transactions)])

UpdateTransaction ==
    \E id \in StoreIds, d \in StoreDates :
        SetState([transactions |->
            [i \in 1..Len(store.transactions) |->
                IF store.transactions[i].id = id
                THEN spread(store.transactions[i], [date |-> d])
                ELSE store.transactions[i]]])

DeleteTransaction ==
    \E id \in StoreIds :
        SetState([transactions |-> SelectSeq(store.transactions, LAMBDA t : t.id # id)])

\* transactions.slice(0, limit)
getRecentTransactions(state, limit) ==
    SubSeq(state.transactions, 1, Min(limit, Len(state.transactions)))

AddNotification ==
    /\ Len(store.notifications) < MaxNotifications
    /\ SetState([notifications |->
           <<[id |-> "notif-new", isRead |-> FALSE]>> \o store.notifications])

MarkNotificationRead ==
    \E id \in {"notif-1", "notif-2", "notif-3", "notif-new"} :
        SetState([notifications |->
            [i \in 1..Len(store.notifications) |->
                IF store.notifications[i].id = id
                THEN spread(store.notifications[i], [isRead |-> TRUE])
                ELSE store.notifications[i]]])

\* the lists a file upload hands over, in file order
UploadedLists ==
    {<<t>> : t \in StoreTransactions}
    \cup {<<t, u>> : t \in {x \in StoreTransactions : x.id = "txn-1"},
                     u \in {x \in StoreTransactions : x.id = "txn-2"}}

LoadTransactionsFromFile ==
    \E ts \in UploadedLists :
        SetState([transactions |-> ts,
                  accounts |-> <<[id |-> "uploaded-account", balance |-> balanceOf(ts)]>>,
                  insights |-> generateMonthlyInsights(ts),
                  cashFlowForecast |-> generateCashFlowForecast,
                  isLoading |-> FALSE,
                  error |-> <<>>,
                  demoMode |-> FALSE])

LoadDemoData ==
    SetState([user |-> <<mockUser>>,
              accounts |-> mockAccounts,
              transactions |-> mockTransactions,
              budgets |-> generateMockBudgets(mockTransactions),
              notifications |-> mockNotifications,
              insights |-> generateMonthlyInsights(mockTransactions),
              cashFlowForecast |-> generateCashFlowForecast,
              isLoading |-> FALSE,
              error |-> <<>>])

MaxSessions == 2

\* the page is loaded again: the store is created anew from local storage
Reload ==
    /\ session < MaxSessions
    /\ session' = session + 1
    /\ store' = rehydrate(storage)
    /\ storage' = persisted(store')
    /\ UNCHANGED <<engineVars, authVars, uploadVars>>

-----------------------------------------------------------------------------
(* Authentication: AuthProvider (src/unnamed/part_001), LoginForm and
   AppContent. A call of login or signup is in flight from its start to the
   end of its simulated delay; what follows the delay runs in one piece. *)

\* the emails and passwords that are typed or passed, by name: the demo
\* account of initAuth, the same email in another letter case, an email of no
\* account in two letter cases, another password and one that is too short
AuthInputs ==
    [emailDemo |->
         <<"d", "e", "m", "o", "@", "f", "i", "n", "s", "e", "n", "s", "e", ".", "c", "o", "m">>,
     emailDemoMixed |->
         <<"D", "e", "m", "o", "@", "F", "i", "n", "S", "e", "n", "s", "e", ".", "c", "o", "m">>,
     emailNew |-> <<"a", "@", "b", ".", "c">>,
     emailNewUpper |-> <<"A", "@", "B", ".", "C">>,
     emailText |-> <<"x">>,
     passwordDemo |-> <<"d", "e", "m", "o", "1", "2", "3">>,
     passwordOther |-> <<"s", "e", "c", "r", "e", "t">>,
     passwordShort |-> <<"a", "b", "c">>]

\* AppContent: the loading view while isLoading, ProtectedApp when
\* authenticated, AuthPage (which opens on the login form) otherwise; a form
\* that leaves the screen loses its state, and AuthPage mounts a fresh one
render(a, s) ==
    LET \* a LoginForm that has just mounted
        freshLoginForm ==
            [form |-> "login", formData |-> [email |-> <<>>, password |-> <<>>],
             errors |-> {}, submitError |-> ""]
        \* no form on screen (the loading view or the protected application)
        noForm == [freshLoginForm EXCEPT !.form = "none"]
    IN IF a.isLoading \/ a.user # <<>> THEN noForm
       ELSE IF s.form = "none" THEN freshLoginForm ELSE s

\* the calls in flight whose submitting form has left the screen
detach(cs, s) ==
    [i \in 1..Len(cs) |->
        IF s.form = "none" /\ cs[i].form = "mounted"
        THEN [cs[i] EXCEPT !.form = "unmounted"] ELSE cs[i]]

\* the provider after it has mounted on an empty local storage: initAuth has
\* stored the demo user and its password, no user is logged in, and AppContent
\* shows AuthPage on a fresh login form
InitAuth ==
    LET demoUser == [id |-> "demo-user-123", email |-> AuthInputs.emailDemo]
    IN /\ authStorage = [users |-> <<demoUser>>,
                         passwords |-> {<<"demo-user-123", AuthInputs.passwordDemo>>},
                         token |-> <<>>,
                         currentUser |-> <<>>]
       /\ auth = [user |-> <<>>, isLoading |-> FALSE]
       /\ calls = <<>>
       /\ screen = render(auth, [form |-> "none"])
       /\ outcomes = <<>>

\* what login does after its delay: [storage, user, result]
loginOutcome(st, a, call) ==
    LET \* users.find(u => u.email.toLowerCase() === email.toLowerCase())
        matching == SelectSeq(st.users,
                        LAMBDA u : toLowerCase(u.email) = toLowerCase(call.email))
        found == IF matching = <<>> THEN <<>> ELSE <<matching[1]>>
        \* localStorage.getItem(`password_${id}`)
        storedPassword(id) ==
            IF \E p \in st.passwords : p[1] = id
            THEN <<(CHOOSE p \in st.passwords : p[1] = id)[2]>>
            ELSE <<>>
    IN IF found = <<>>
       THEN [storage |-> st, user |-> a.user,
             result |-> [success |-> FALSE,
                         error |-> "User not found. Please check your email or sign up."]]
       ELSE IF storedPassword(found[1].id) # <<call.password>>
       THEN [storage |-> st, user |-> a.user,
             result |-> [success |-> FALSE, error |-> "Invalid password. Please try again."]]
       ELSE [storage |-> [st EXCEPT !.token = <<found[1].id>>, !.currentUser = found],
             user |-> found,
             result |-> [success |-> TRUE, error |-> ""]]

signupOutcomeExact(st, a, call) ==
    IF \E i \in 1..Len(st.users) : st.users[i].email = call.email
    THEN [storage |-> st, user |-> a.user,
          result |-> [success |-> FALSE,
                      error |-> "An account with this email already exists."]]
    ELSE LET newUser == [id |-> "user_" \o ToString(Len(st.users)), email |-> call.email]
         IN [storage |-> [users |-> Append(st.users, newUser),
                          passwords |-> st.passwords \cup {<<newUser.id, call.password>>},
                          token |-> <<newUser.id>>,
                          currentUser |-> <<newUser>>],
             user |-> <<newUser>>,
             result |-> [success |-> TRUE, error |-> ""]]

\* what signup does after its delay: [storage, user, result]; the id of the
\* new user is fresh
signupOutcome(st, a, call) ==
    IF \E i \in 1..Len(st.users) :
           toLowerCase(st.users[i].email) = toLowerCase(call.email)
    THEN [storage |-> st, user |-> a.user,
          result |-> [success |-> FALSE,
                      error |-> "An account with this email already exists."]]
    ELSE LET newUser == [id |-> "user_" \o ToString(Len(st.users)), email |-> call.email]
         IN [storage |-> [users |-> Append(st.users, newUser),
                          passwords |-> st.passwords \cup {<<newUser.id, call.password>>},
                          token |-> <<newUser.id>>,
                          currentUser |-> <<newUser>>],
             user |-> <<newUser>>,
             result |-> [success |-> TRUE, error |-> ""]]

MaxCalls == 2

\* LoginForm.handleChange: one field is typed; its error and the submit error
\* are cleared
HandleChange ==
    /\ screen.form = "login"
    /\ \E name \in {"email", "password"} :
          \E value \in (IF name = "email"
                        THEN {AuthInputs.emailDemoMixed, AuthInputs.emailNew,
                              AuthInputs.emailText}
                        ELSE {AuthInputs.passwordDemo, AuthInputs.passwordOther,
                              AuthInputs.passwordShort}) :
              /\ screen.formData[name] # value
              /\ screen' = [screen EXCEPT !.formData[name] = value,
                                          !.errors = @ \ {name},
                                          !.submitError = ""]
    /\ UNCHANGED <<authStorage, auth, calls, outcomes>>
    /\ UNCHANGED <<engineVars, storeVars, uploadVars>>

\* LoginForm.handleSubmit up to its await: the form is validated and login
\* is called, which sets isLoading; AppContent renders
HandleSubmit ==
    /\ screen.form = "login"
    /\ LET \* /\S+@\S+\.\S+/.test(s)
           isEmail(s) ==
               \E a, d \in 1..Len(s) :
                   /\ a >= 2 /\ s[a - 1] # " " /\ s[a] = "@"
                   /\ d >= a + 2 /\ s[d] = "." /\ d < Len(s) /\ s[d + 1] # " "
                   /\ \A k \in (a + 1)..(d - 1) : s[k] # " "
           \* validateForm: the names of the fields with an error
           validateForm(formData) ==
               (IF formData.email = <<>> \/ ~isEmail(formData.email)
                THEN {"email"} ELSE {})
               \cup (IF Len(formData.password) < 6 THEN {"password"} ELSE {})
           errs == validateForm(screen.formData)
           cleared == [screen EXCEPT !.submitError = "", !.errors = errs]
       IN IF errs # {}
          THEN /\ screen' = cleared
               /\ UNCHANGED <<auth, calls>>
          ELSE /\ Len(calls) + Len(outcomes) < MaxCalls
               /\ auth' = [auth EXCEPT !.isLoading = TRUE]
               /\ screen' = render(auth', cleared)
               /\ calls' = detach(Append(calls,
                               [kind |-> "login", email |-> screen.formData.email,
                                password |-> screen.formData.password, form |-> "mounted"]),
                             screen')
    /\ UNCHANGED <<authStorage, outcomes>>
    /\ UNCHANGED <<engineVars, storeVars, uploadVars>>

\* a consumer of the context calls signup(userData): isLoading is set and the
\* delay starts
Signup ==
    /\ Len(calls) + Len(outcomes) < MaxCalls
    /\ \E email \in {AuthInputs.emailNew, AuthInputs.emailNewUpper,
                     AuthInputs.emailDemoMixed} :
          /\ auth' = [auth EXCEPT !.isLoading = TRUE]
          /\ screen' = render(auth', screen)
          /\ calls' = detach(Append(calls,
                          [kind |-> "signup", email |-> email,
                           password |-> AuthInputs.passwordOther, form |-> "none"]),
                        screen')
    /\ UNCHANGED <<authStorage, outcomes>>
    /\ UNCHANGED <<engineVars, storeVars, uploadVars>>

\* the delay of a call in flight ends: the rest of login or signup runs, its
\* finally clause clears isLoading, the caller gets the result (handleSubmit
\* sets submitError on its form if that form is still mounted) and AppContent
\* renders
Resume ==
    \E i \in 1..Len(calls) :
        LET call == calls[i]
            o == IF call.kind = "login"
                 THEN loginOutcome(authStorage, auth, call)
                 ELSE signupOutcome(authStorage, auth, call)
            shown == IF call.kind = "login" /\ call.form = "mounted" /\ ~o.result.success
                     THEN [screen EXCEPT !.submitError = o.result.error]
                     ELSE screen
        IN /\ authStorage' = o.storage
           /\ auth' = [user |-> o.user, isLoading |-> FALSE]
           /\ screen' = render(auth', shown)
           /\ calls' = detach(SubSeq(calls, 1, i - 1) \o SubSeq(calls, i + 1, Len(calls)),
                              screen')
           /\ outcomes' = Append(outcomes,
                  [call |-> call, result |-> o.result,
                   inFlight |-> SubSeq(calls, 1, i - 1) \o SubSeq(calls, i + 1, Len(calls))])
    /\ UNCHANGED <<engineVars, storeVars, uploadVars>>

\* logout, from the protected application
Logout ==
    /\ auth.user # <<>>
    /\ ~auth.isLoading
    /\ authStorage' = [authStorage EXCEPT !.token = <<>>, !.currentUser = <<>>]
    /\ auth' = [auth EXCEPT !.user = <<>>]
    /\ screen' = render(auth', screen)
    /\ calls' = detach(calls, screen')
    /\ UNCHANGED outcomes
    /\ UNCHANGED <<engineVars, storeVars, uploadVars>>

-----------------------------------------------------------------------------
(* File upload: the handling of one row of a CSV file
   (src/src/components/FileUpload.tsx) *)

\* categorizeTransaction(description, amount), the amount in cents
categorizeTransaction(description, amount) ==
    LET desc == toLowerCase(description)
    IN IF \/ includes(desc, <<"s", "a", "l", "a", "r", "y">>)
               \/ includes(desc, <<"i", "n", "c", "o", "m", "e">>)
          \/ includes(desc, <<"d", "e", "p", "o", "s", "i", "t">>) \/ amount > 0
       THEN "income"
       ELSE IF \/ includes(desc, <<"g", "r", "o", "c", "e", "r", "y">>)
               \/ includes(desc, <<"f", "o", "o", "d">>)
               \/ includes(desc, <<"r", "e", "s", "t", "a", "u", "r", "a", "n", "t">>)
               \/ includes(desc, <<"s", "t", "a", "r", "b", "u", "c", "k", "s">>)
       THEN "food"
       ELSE IF \/ includes(desc, <<"r", "e", "n", "t">>)
               \/ includes(desc, <<"m", "o", "r", "t", "g", "a", "g", "e">>)
               \/ includes(desc, <<"h", "o", "u", "s", "i", "n", "g">>)
       THEN "housing"
       ELSE IF \/ includes(desc, <<"g", "a", "s">>)
               \/ includes(desc, <<"u", "b", "e", "r">>)
               \/ includes(desc, <<"t", "a", "x", "i">>)
               \/ includes(desc, <<"t", "r", "a", "n", "s", "p", "o", "r", "t">>)
       THEN "transportation"
       ELSE IF \/ includes(desc, <<"m", "o", "v", "i", "e">>)
               \/ includes(desc, <<"n", "e", "t", "f", "l", "i", "x">>)
               \/ includes(desc, <<"e", "n", "t", "e", "r", "t", "a", "i", "n", "m", "e", "n", "t">>)
       THEN "entertainment"
       ELSE IF \/ includes(desc, <<"e", "l", "e", "c", "t", "r", "i", "c">>)
               \/ includes(desc, <<"w", "a", "t", "e", "r">>)
               \/ includes(desc, <<"u", "t", "i", "l", "i", "t", "y">>)
               \/ includes(desc, <<"p", "h", "o", "n", "e">>)
       THEN "utilities"
       ELSE IF \/ includes(desc, <<"a", "m", "a", "z", "o", "n">>)
               \/ includes(desc, <<"s", "h", "o", "p", "p", "i", "n", "g">>)
               \/ includes(desc, <<"s", "t", "o", "r", "e">>)
       THEN "shopping"
       ELSE IF \/ includes(desc, <<"d", "o", "c", "t", "o", "r">>)
               \/ includes(desc, <<"h", "o", "s", "p", "i", "t", "a", "l">>)
               \/ includes(desc, <<"p", "h", "a", "r", "m", "a", "c", "y">>)
               \/ includes(desc, Kw_medical)
       THEN "healthcare"
       ELSE "other"

\* parseFloat: the longest prefix [-]digits[.digits] is read; <<>> is NaN and
\* <<n>> the number n in cents (digits after the second decimal are dropped)
parseFloat(s) ==
    LET DigitChars == <<"0", "1", "2", "3", "4", "5", "6", "7", "8", "9">>
        isDigit(c) == \E n \in 1..10 : DigitChars[n] = c
        digitValue(c) == (CHOOSE n \in 1..10 : DigitChars[n] = c) - 1
        \* the length of the run of digits at the start of u
        digitRun(u) ==
            CHOOSE k \in 0..Len(u) :
                /\ \A i \in 1..k : isDigit(u[i])
                /\ (k = Len(u) \/ ~isDigit(u[k + 1]))
        \* the number written by a sequence of digits
        digitsValue(u) ==
            LET value[i \in 0..Len(u)] ==
                    IF i = 0 THEN 0 ELSE 10 * value[i - 1] + digitValue(u[i])
            IN value[Len(u)]
        negative == s # <<>> /\ s[1] = "-"
        body == IF negative THEN Tail(s) ELSE s
        whole == digitRun(body)
        afterWhole == SubSeq(body, whole + 1, Len(body))
        decimals == IF afterWhole # <<>> /\ afterWhole[1] = "."
                    THEN digitRun(Tail(afterWhole)) ELSE 0
        cents == SubSeq(SubSeq(afterWhole, 2, decimals + 1) \o <<"0", "0">>, 1, 2)
        magnitude == 100 * digitsValue(SubSeq(body, 1, whole)) + digitsValue(cents)
    IN IF whole + decimals = 0 THEN <<>>
       ELSE <<IF negative THEN 0 - magnitude ELSE magnitude>>

\* the body of results.data.forEach for one row with the columns Date,
\* Description and Amount: a transaction, or the error that is recorded
parseRow(r) ==
    LET \* amountStr.toString().replace(/[,$()]/g, '')
        stripAmount(s) == SelectSeq(s, LAMBDA c : c \notin {",", "$", "(", ")"})
        \* the amount of the row: <<>> is NaN
        rowAmount ==
            LET parsedAmount == parseFloat(stripAmount(r.Amount))
            IN IF /\ parsedAmount # <<>>
                  /\ includes(r.Amount, <<"(">>) /\ includes(r.Amount, <<")">>)
               THEN <<0 - Abs(parsedAmount[1])>>
               ELSE parsedAmount
        \* the date strings of the inputs that new Date() accepts: date-only
        \* ISO strings, read as UTC and printed back unchanged by toISOString
        IsoDates == {"2026-01-15"}
        \* <<>> for an invalid date
        parseDate(date) == IF date \in IsoDates THEN <<date>> ELSE <<>>
        isSpace(c) == c = " "
        trim(s) ==
            LET first == CHOOSE i \in 1..(Len(s) + 1) :
                             /\ \A k \in 1..(i - 1) : isSpace(s[k])
                             /\ (i = Len(s) + 1 \/ ~isSpace(s[i]))
                last == CHOOSE j \in 0..Len(s) :
                            /\ \A k \in (j + 1)..Len(s) : isSpace(s[k])
                            /\ (j = 0 \/ ~isSpace(s[j]))
            IN SubSeq(s, first, last)
    IN IF r.Date = "" \/ r.Description = <<>> \/ r.Amount = <<>>
       THEN [error |-> "Missing fields"]
       ELSE LET amount == rowAmount
            IN IF amount = <<>> THEN [error |-> "Invalid amount format"]
               ELSE LET type == IF amount[1] > 0 THEN "income" ELSE "expense"
                        finalAmount == Abs(amount[1])
                        category == categorizeTransaction(r.Description, finalAmount)
                        parsedDate == parseDate(r.Date)
                    IN IF parsedDate = <<>> THEN [error |-> "Invalid date format"]
                       ELSE [date |-> parsedDate[1],
                             description |-> trim(r.Description),
                             amount |-> finalAmount,
                             category |-> category,
                             type |-> type]

-----------------------------------------------------------------------------
(* Inputs *)

DescPlain == <<"L", "u", "n", "c", "h">>
DescGym == <<"G", "Y", "M", " ", "p", "a", "s", "s">>
DescSubscription == <<"M", "o", "n", "t", "h", "l", "y", " ", "p", "l", "a", "n">>
DescUnused == <<"U", "n", "u", "s", "e", "d", " ", "g", "i", "f", "t">>
DescBookCancel == <<"B", "o", "o", "k", " ", "c", "a", "n", "c", "e", "l">>
DescSubRefund == <<"s", "u", "b", "s", "c", "r", "i", "p", "t", "i", "o", "n", " ", "R", "E", "F", "U", "N", "D">>

DescLateNight == <<"L", "a", "t", "e", " ", "N", "i", "g", "h", "t", " ", "F", "o", "o", "d", " ", "D", "e", "l", "i", "v", "e", "r", "y">>

DescGymMonthly == <<"G", "y", "m", " ", "m", "o", "n", "t", "h", "l", "y">>

Descriptions ==
    {DescPlain, DescGym, DescSubscription, DescUnused, DescBookCancel, DescSubRefund,
     DescLateNight, DescGymMonthly}

\* amounts in cents: 0, the values on each side of every threshold of the
\* rules, 34.67 and 4500.00
Amounts ==
    {0, 1999, 2000, 2999, 3000, 3467, 4999, 5000, 5001, 10000, 10001,
     20000, 20001, 30000, 30001, 50000, 50001, 100000, 100001, 450000}

Hours == 0..23

Categories == {TransactionCategory[c] : c \in 1..Len(TransactionCategory)}

Today == [year |-> 2026, month |-> 1, day |-> 31, hour |-> 10]

\* the transactions handed to analyzePurchase on its own
PurchaseInputs ==
    {[id |-> 1, amount |-> a, description |-> d, category |-> c,
      date |-> [year |-> 2026, month |-> 1, day |-> 15, hour |-> h], type |-> ty] :
        a \in Amounts, d \in Descriptions, c \in Categories, h \in Hours,
        ty \in {"income", "expense"}}

MaxTransactions == 3

\* the dated transactions of the lists handed to analyzeAllPurchases: the
\* 15th, at noon, of the current month and of each of the three months before
ListMonths == {subMonths([Today EXCEPT !.day = 15, !.hour = 12], k) : k \in 0..3}

ListInputs ==
    {[id |-> 0, amount |-> a, description |-> DescPlain, category |-> c,
      date |-> d, type |-> "expense"] :
        a \in {100, 25000}, c \in {"food", "shopping"}, d \in ListMonths}
    \cup
    {[id |-> 0, amount |-> 450000, description |-> DescPlain, category |-> "income",
      date |-> [Today EXCEPT !.day = 15, !.hour = 12], type |-> "income"]}

\* the transactions of the lists handed to generateMonthlyPrediction: food
\* expenses of three sizes in the three months the predictor looks at, food
\* expenses outside them (before the cut-off subMonths(now, 3), after it in
\* the same month, and next month), shopping expenses, and an income
\* transaction filed under food
PredictionInputs ==
    {[id |-> 0, amount |-> a, description |-> DescPlain, category |-> "food",
      date |-> subMonths([Today EXCEPT !.day = 15, !.hour = 12], k), type |-> "expense"] :
        a \in {50, 10000, 25000}, k \in 0..2}
    \cup
    {[id |-> 0, amount |-> 25000, description |-> DescPlain, category |-> "food",
      date |-> d, type |-> "expense"] :
        d \in {[year |-> 2025, month |-> 10, day |-> 15, hour |-> 12],
               [year |-> 2025, month |-> 10, day |-> 31, hour |-> 23],
               [year |-> 2026, month |-> 2, day |-> 15, hour |-> 12]}}
    \cup
    {[id |-> 0, amount |-> 25000, description |-> DescPlain, category |-> "shopping",
      date |-> subMonths([Today EXCEPT !.day = 15, !.hour = 12], k), type |-> "expense"] :
        k \in 0..1}
    \cup
    {[id |-> 0, amount |-> 25000, description |-> DescPlain, category |-> "food",
      date |-> [Today EXCEPT !.day = 15, !.hour = 12], type |-> "income"]}

-----------------------------------------------------------------------------
(* Specification of the classifier on one transaction *)

NoTransaction == <<>>

\* the provider has mounted on an empty storage and the login form is on screen
InitPurchase ==
    /\ tx \in PurchaseInputs
    /\ analysis = <<>>
    /\ transactions = <<>>
    /\ now = Today
    /\ insights = <<>>
    /\ prediction = <<>>
    /\ store = initialState
    /\ storage = <<>>
    /\ session = 1
    /\ InitAuth
    /\ row = <<>>
    /\ parsed = <<>>

AnalyzePurchase ==
    /\ analysis = <<>>
    /\ analysis' = <<analyzePurchase(tx)>>
    /\ UNCHANGED <<tx, transactions, now, insights, prediction>>
    /\ UNCHANGED <<storeVars, authVars, uploadVars>>

NextPurchase == AnalyzePurchase

SpecPurchase == InitPurchase /\ [][NextPurchase]_vars

-----------------------------------------------------------------------------
(* Specification of the aggregator and the predictor on a transaction list *)

Init ==
    /\ tx = NoTransaction
    /\ analysis = <<>>
    /\ transactions = <<>>
    /\ now = Today
    /\ insights = <<>>
    /\ prediction = <<>>
    /\ store = initialState
    /\ storage = <<>>
    /\ session = 1
    /\ InitAuth
    /\ row = <<>>
    /\ parsed = <<>>

\* a data-loading collaborator appends a transaction; the memoised insights
\* are dropped with the list they were computed from
LoadTransaction ==
    /\ Len(transactions) < MaxTransactions
    /\ \E t \in ListInputs :
          transactions' = Append(transactions, [t EXCEPT !.id = Len(transactions) + 1])
    /\ insights' = <<>>
    /\ UNCHANGED <<tx, analysis, now, prediction>>
    /\ UNCHANGED <<storeVars, authVars, uploadVars>>

AnalyzeAllPurchases ==
    /\ insights = <<>>
    /\ insights' = <<analyzeAllPurchases(transactions, now)>>
    /\ UNCHANGED <<tx, analysis, transactions, now, prediction>>
    /\ UNCHANGED <<storeVars, authVars, uploadVars>>

Next == LoadTransaction \/ AnalyzeAllPurchases

Spec == Init /\ [][Next]_vars

-----------------------------------------------------------------------------
(* Specification of the predictor on a transaction list *)

InitPrediction ==
    /\ tx = NoTransaction
    /\ analysis = <<>>
    /\ transactions = <<>>
    /\ now = Today
    /\ insights = <<>>
    /\ prediction = <<>>
    /\ store = initialState
    /\ storage = <<>>
    /\ session = 1
    /\ InitAuth
    /\ row = <<>>
    /\ parsed = <<>>

LoadPredictionInput ==
    /\ Len(transactions) < MaxTransactions
    /\ \E t \in PredictionInputs :
          transactions' = Append(transactions, [t EXCEPT !.id = Len(transactions) + 1])
    /\ prediction' = <<>>
    /\ UNCHANGED <<tx, analysis, now, insights>>
    /\ UNCHANGED <<storeVars, authVars, uploadVars>>

GenerateMonthlyPrediction ==
    /\ prediction = <<>>
    /\ prediction' = <<generateMonthlyPrediction(transactions, now)>>
    /\ UNCHANGED <<tx, analysis, transactions, now, insights>>
    /\ UNCHANGED <<storeVars, authVars, uploadVars>>

NextPrediction == LoadPredictionInput \/ GenerateMonthlyPrediction

SpecPrediction == InitPrediction /\ [][NextPrediction]_vars

-----------------------------------------------------------------------------
(* Specification of the finance store over page loads *)

InitStore ==
    /\ tx = NoTransaction
    /\ analysis = <<>>
    /\ transactions = <<>>
    /\ now = Today
    /\ insights = <<>>
    /\ prediction = <<>>
    /\ store = initialState
    /\ storage = <<>>
    /\ session = 1
    /\ InitAuth
    /\ row = <<>>
    /\ parsed = <<>>

NextStore ==
    \/ SetUser
    \/ ToggleDemoMode
    \/ AddTransaction
    \/ UpdateTransaction
    \/ DeleteTransaction
    \/ AddNotification
    \/ MarkNotificationRead
    \/ LoadTransactionsFromFile
    \/ LoadDemoData
    \/ Reload

SpecStore == InitStore /\ [][NextStore]_vars

-----------------------------------------------------------------------------
(* Properties of the classifier, checked under SpecPurchase *)

\* C1: every analysis returned by analyzePurchase has an integer score
\* between -100 and 100
ScoreInRange ==
    analysis # <<>> => analysis[1].score \in -100..100

\* an expense whose rules sum to less than -100 was analysed (the lower clamp acted)
ScoreClampedWitness ==
    /\ analysis # <<>>
    /\ tx.type = "expense"
    /\ applyRules(tx).score < -100
    /\ analysis[1].score = -100

\* C2: classification and impact are decided by the score alone: good and
\* positive iff score >= 20, bad and negative iff score <= -20, neutral and
\* neutral otherwise
ClassificationFromScore ==
    analysis # <<>> =>
        LET a == analysis[1]
        IN /\ (a.classification = "good") <=> (a.score >= 20)
           /\ (a.classification = "bad") <=> (a.score <= -20)
           /\ (a.classification = "neutral") <=> (a.score > -20 /\ a.score < 20)
           /\ (a.impact = "positive") <=> (a.classification = "good")
           /\ (a.impact = "negative") <=> (a.classification = "bad")
           /\ (a.impact = "neutral") <=> (a.classification = "neutral")

\* an expense scored exactly at the threshold 20 was classified good
ClassificationThresholdWitness ==
    /\ analysis # <<>>
    /\ tx.type = "expense"
    /\ analysis[1].score = 20
    /\ analysis[1].classification = "good"

\* C3: an income transaction gets the fixed income analysis, whatever its
\* amount, description, category and hour
IncomeShortCircuit ==
    (analysis # <<>> /\ tx.type = "income") =>
        /\ analysis[1].score = 100
        /\ analysis[1].classification = "good"
        /\ analysis[1].category = "essential"
        /\ analysis[1].impact = "positive"
        /\ analysis[1].reasoning = "Income is always positive for financial health"

\* an income transaction that the expense rules would have scored bad was analysed
IncomeWitness ==
    /\ analysis # <<>>
    /\ tx.type = "income"
    /\ applyRules(tx).score <= -20
    /\ analysis[1].score = 100

-----------------------------------------------------------------------------
(* Properties of the aggregator and the predictor, checked under Spec *)

\* the positions of the input list whose analysis is at some place of a list
PlacesOf(list, i) == {k \in 1..Len(list) : list[k].id = i}

InInputOrder(list) ==
    \A k \in 1..Len(list), l \in 1..Len(list) : k < l => list[k].id < list[l].id

\* C4: every input transaction has its analysis in exactly one of the three
\* lists, the one of its classification; the lengths sum to the number of
\* inputs and each list keeps the input order
PartitionByClassification ==
    insights # <<>> =>
        LET r == insights[1]
            n == Len(transactions)
        IN /\ Len(r.goodPurchases) + Len(r.badPurchases) + Len(r.neutralPurchases) = n
           /\ InInputOrder(r.goodPurchases)
           /\ InInputOrder(r.badPurchases)
           /\ InInputOrder(r.neutralPurchases)
           /\ \A i \in 1..n :
                LET a == analyzePurchase(transactions[i])
                    g == PlacesOf(r.goodPurchases, i)
                    b == PlacesOf(r.badPurchases, i)
                    u == PlacesOf(r.neutralPurchases, i)
                    own == IF a.classification = "good" THEN r.goodPurchases
                           ELSE IF a.classification = "bad" THEN r.badPurchases
                           ELSE r.neutralPurchases
                IN /\ Cardinality(g) + Cardinality(b) + Cardinality(u) = 1
                   /\ \E k \in 1..Len(own) : own[k] = a

\* a list with a good, a bad and a neutral transaction was partitioned
PartitionWitness ==
    /\ insights # <<>>
    /\ Len(insights[1].goodPurchases) > 0
    /\ Len(insights[1].badPurchases) > 0
    /\ Len(insights[1].neutralPurchases) > 0

\* C5: goodBadRatio is totalGoodValue / totalBadValue when totalBadValue > 0,
\* 10 when totalBadValue = 0 < totalGoodValue, and 1 when both are 0
GoodBadRatioCases ==
    insights # <<>> =>
        LET r == insights[1]
            q == r.goodBadRatio
        IN /\ q.den > 0
           /\ r.totalBadValue > 0 => q.num * r.totalBadValue = r.totalGoodValue * q.den
           /\ (r.totalBadValue = 0 /\ r.totalGoodValue > 0) => (q.num = 10 /\ q.den = 1)
           /\ (r.totalBadValue = 0 /\ r.totalGoodValue = 0) => (q.num = 1 /\ q.den = 1)

\* a non-empty list without bad and without good spending got the ratio 1
GoodBadRatioWitness ==
    /\ insights # <<>>
    /\ Len(transactions) > 0
    /\ insights[1].totalBadValue = 0
    /\ insights[1].totalGoodValue = 0
    /\ insights[1].goodBadRatio = [num |-> 1, den |-> 1]

\* the sum of the amounts of the expense transactions of ts classified c
RECURSIVE ExpenseSum(_, _)
ExpenseSum(ts, c) ==
    IF ts = <<>> THEN 0
    ELSE (IF ts[1].type = "expense" /\ analyzePurchase(ts[1]).classification = c
          THEN ts[1].amount ELSE 0) + ExpenseSum(Tail(ts), c)

\* C6: totalGoodValue and totalBadValue sum the amounts of the expense
\* transactions classified good and bad; income adds nothing, so a list of
\* income transactions only gives totalGoodValue = 0 and goodBadRatio = 1
TotalsCountExpensesOnly ==
    insights # <<>> =>
        LET r == insights[1]
        IN /\ r.totalGoodValue = ExpenseSum(transactions, "good")
           /\ r.totalBadValue = ExpenseSum(transactions, "bad")
           /\ (\A i \in 1..Len(transactions) : transactions[i].type = "income") =>
                 (r.totalGoodValue = 0 /\ r.goodBadRatio = [num |-> 1, den |-> 1])

\* a list with an income transaction and a good expense was totalled
TotalsWitness ==
    /\ insights # <<>>
    /\ \E k \in 1..Len(insights[1].goodPurchases) :
          insights[1].goodPurchases[k].transaction.type = "income"
    /\ insights[1].totalGoodValue > 0

\* C7: the empty list gives empty lists, zero totals, ratio 1, an empty
\* breakdown, totalEstimated = 0 and the fallback recommendation only
EmptyListResult ==
    (insights # <<>> /\ transactions = <<>>) =>
        LET r == insights[1]
        IN /\ r.goodPurchases = <<>>
           /\ r.badPurchases = <<>>
           /\ r.neutralPurchases = <<>>
           /\ r.totalGoodValue = 0
           /\ r.totalBadValue = 0
           /\ r.goodBadRatio = [num |-> 1, den |-> 1]
           /\ r.monthlyPrediction.categoryBreakdown = <<>>
           /\ r.monthlyPrediction.totalEstimated = 0
           /\ r.monthlyPrediction.recommendations =
                 <<"Your spending patterns look stable for next month">>

\* the empty list was analysed
EmptyListWitness ==
    /\ transactions = <<>>
    /\ insights # <<>>
    /\ Len(insights[1].monthlyPrediction.recommendations) = 1

\* the calendar months, counted back from the current one, that the
\* predictor looks at
PredictionMonths == 0..2

InMonthsAgo(t, today, i) ==
    /\ t.date.year = subMonths(today, i).year
    /\ t.date.month = subMonths(today, i).month

\* the expense total (cents) of a category over the three months
CategoryTotal(ts, today, category) ==
    sumAmount(SelectSeq(ts, LAMBDA t :
        /\ t.type = "expense"
        /\ t.category = category
        /\ \E i \in PredictionMonths : InMonthsAgo(t, today, i)))

\* C8: no entry of categoryBreakdown has estimated = 0; every entry has
\* estimated > 0
NoZeroEstimate ==
    insights # <<>> =>
        LET b == insights[1].monthlyPrediction.categoryBreakdown
        IN \A k \in 1..Len(b) : b[k].estimated > 0

\* a category with spending in the three months whose average rounds to 0
\* was left out of the breakdown
NoZeroEstimateWitness ==
    /\ insights # <<>>
    /\ LET b == insights[1].monthlyPrediction.categoryBreakdown
       IN \E c \in Categories :
            /\ CategoryTotal(transactions, now, c) > 0
            /\ \A k \in 1..Len(b) : b[k].category # c
    /\ Len(insights[1].monthlyPrediction.categoryBreakdown) > 0

\* the number of the three months in which a category has expense data
MonthsWithData(ts, today, category) ==
    Cardinality({i \in PredictionMonths :
        \E k \in 1..Len(ts) :
            /\ ts[k].type = "expense"
            /\ ts[k].category = category
            /\ InMonthsAgo(ts[k], today, i)})

\* C9: the confidence of a breakdown entry is min(90, 30 x the number of
\* months in which its category has data): 30, 60, 90 for 1, 2, 3 months
ConfidenceFromMonthsWithData ==
    insights # <<>> =>
        LET b == insights[1].monthlyPrediction.categoryBreakdown
        IN \A k \in 1..Len(b) :
              b[k].confidence = Min(90, 30 * MonthsWithData(transactions, now, b[k].category))

-----------------------------------------------------------------------------
(* Further properties of the aggregator, checked under Spec *)

AllPurchases(r) == r.goodPurchases \o r.badPurchases \o r.neutralPurchases

\* C11: a call of analyzeAllPurchases (which calls analyzePurchase and
\* generateMonthlyPrediction) leaves the transaction list as it was, and
\* every analysis it returns carries its input transaction unchanged
InputNotModified ==
    [][(insights = <<>> /\ insights' # <<>>) =>
          /\ transactions' = transactions
          /\ \A k \in 1..Len(AllPurchases(insights'[1])) :
                LET a == AllPurchases(insights'[1])[k]
                IN /\ a.id \in 1..Len(transactions)
                   /\ a.transaction = transactions[a.id]]_vars

\* a list holding an expense and an income transaction was analysed
InputNotModifiedWitness ==
    /\ insights # <<>>
    /\ Len(transactions) >= 2
    /\ \E i, j \in 1..Len(transactions) :
          transactions[i].type = "income" /\ transactions[j].type = "expense"
    /\ Len(AllPurchases(insights[1])) = Len(transactions)

\* C15: trends.improvementScore lies between -100 and 100
ImprovementScoreInRange ==
    insights # <<>> =>
        LET q == insights[1].trends.improvementScore
        IN /\ q.num <= 100 * q.den
           /\ q.num >= (0 - 100) * q.den

-----------------------------------------------------------------------------
(* Further properties of the classifier, checked under SpecPurchase *)

\* the keywords of the descriptions of the inputs, read off their text
InvestmentDescriptions == {DescGym, DescBookCancel, DescGymMonthly}

RecurringDescriptions == {DescSubscription, DescSubRefund, DescGymMonthly}

WasteDescriptions == {DescUnused, DescBookCancel, DescSubRefund}

EssentialCategories == {"food", "housing", "transportation", "utilities", "healthcare"}

Term(condition, value) == IF condition THEN value ELSE 0

\* the sum of the independently gated contributions of C16 (amounts in cents)
ExpectedRawScore(t) ==
      Term(t.category \in EssentialCategories, 30)
    + Term(t.category = "food" /\ t.amount > 10000, -20)
    + Term(t.category = "utilities" /\ t.amount > 30000, -15)
    + Term(t.description \in InvestmentDescriptions, 40)
    + Term(t.date.hour < 6 \/ t.date.hour > 22, -25)
    + Term(t.category = "shopping" /\ t.amount > 20000, -30)
    + Term(t.category = "shopping" /\ t.amount < 5000, 10)
    + Term(t.category = "entertainment" /\ t.amount > 10000, -20)
    + Term(t.category = "entertainment" /\ t.amount < 3000, 15)
    + Term(t.description \in RecurringDescriptions /\ t.amount > 5000, -15)
    + Term(t.description \in RecurringDescriptions /\ t.amount <= 5000, 5)
    + Term(t.amount > 100000, -40)
    + Term(t.amount > 50000 /\ t.amount <= 100000, -20)
    + Term(t.amount < 2000, 10)
    + Term(t.description \in WasteDescriptions, -50)

\* C14: the sample transaction 'Late Night Food Delivery' (expense, food,
\* 34.67) is classified bad, whatever its local hour
LateNightSampleFlaggedBad ==
    (/\ analysis # <<>>
     /\ tx.type = "expense"
     /\ tx.category = "food"
     /\ tx.amount = 3467
     /\ tx.description = DescLateNight) =>
        analysis[1].classification = "bad"

\* C16: the score of an expense before clamping is the sum of the gated
\* contributions, every comparison being strict, and the returned score is
\* that sum clamped
ScoreIsSumOfContributions ==
    (analysis # <<>> /\ tx.type = "expense") =>
        /\ applyRules(tx).score = ExpectedRawScore(tx)
        /\ analysis[1].score = Max(-100, Min(100, ExpectedRawScore(tx)))

\* a shopping expense of exactly 50.00 at 22h got neither the shopping
\* adjustments nor the late-night penalty
ScoreBoundaryWitness ==
    /\ analysis # <<>>
    /\ tx.type = "expense"
    /\ tx.category = "shopping"
    /\ tx.amount = 5000
    /\ tx.date.hour = 22
    /\ tx.description = DescPlain
    /\ analysis[1].score = 0

\* the category of the last matching category-assigning rule
ExpectedCategory(t) ==
    IF t.description \in WasteDescriptions THEN "waste"
    ELSE IF t.description \in RecurringDescriptions /\ t.amount > 5000 THEN "waste"
    ELSE IF t.category = "entertainment" THEN "entertainment"
    ELSE IF t.category = "shopping" /\ t.amount > 20000 THEN "impulse"
    ELSE IF t.date.hour < 6 \/ t.date.hour > 22 THEN "impulse"
    ELSE IF t.description \in InvestmentDescriptions THEN "investment"
    ELSE IF t.category \in EssentialCategories THEN "essential"
    ELSE "entertainment"

\* C17: the analysis category of an expense is the one of the last matching
\* category-assigning rule, entertainment if none matches; a late-night
\* entertainment purchase is entertainment, a food purchase with 'gym' in
\* its description at 2am is impulse
CategoryOfLastMatchingRule ==
    (analysis # <<>> /\ tx.type = "expense") =>
        /\ analysis[1].category = ExpectedCategory(tx)
        /\ (tx.category = "entertainment" /\ tx.date.hour = 23
              /\ tx.description \in {DescPlain, DescGym})
             => analysis[1].category = "entertainment"
        /\ (tx.category = "food" /\ tx.date.hour = 2 /\ tx.description = DescGym)
             => analysis[1].category = "impulse"

\* the food purchase with 'gym' in its description at 2am was analysed
CategoryWitness ==
    /\ analysis # <<>>
    /\ tx.type = "expense"
    /\ tx.category = "food"
    /\ tx.date.hour = 2
    /\ tx.description = DescGym
    /\ analysis[1].category = "impulse"

Tag(condition, tag) == IF condition THEN <<tag>> ELSE <<>>

\* the tags of the triggered rules, in rule order
ExpectedTags(t) ==
       Tag(t.category \in EssentialCategories, "Essential category")
    \o Tag(t.category = "food" /\ t.amount > 10000, "High food expense")
    \o Tag(t.category = "utilities" /\ t.amount > 30000, "High utility bill")
    \o Tag(t.description \in InvestmentDescriptions, "Investment in personal development")
    \o Tag(t.date.hour < 6 \/ t.date.hour > 22, "Late night purchase (potential impulse)")
    \o Tag(t.category = "shopping" /\ t.amount > 20000, "Large shopping expense")
    \o Tag(t.category = "shopping" /\ t.amount < 5000, "Reasonable shopping amount")
    \o Tag(t.category = "entertainment" /\ t.amount > 10000, "High entertainment cost")
    \o Tag(t.category = "entertainment" /\ t.amount < 3000, "Moderate entertainment expense")
    \o Tag(t.description \in RecurringDescriptions /\ t.amount > 5000,
           "Expensive recurring subscription")
    \o Tag(t.description \in RecurringDescriptions /\ t.amount <= 5000,
           "Reasonable subscription service")
    \o Tag(t.amount > 100000, "Very large expense")
    \o Tag(t.amount > 50000 /\ t.amount <= 100000, "Large expense")
    \o Tag(t.amount < 2000, "Small, manageable amount")
    \o Tag(t.description \in WasteDescriptions, "Potentially wasteful purchase")

RECURSIVE CommaSeparated(_)
CommaSeparated(tags) ==
    IF Len(tags) = 1 THEN tags[1]
    ELSE tags[1] \o ", " \o CommaSeparated(Tail(tags))

\* C18: the reasoning of an expense is the comma-separated list of the tags
\* of the triggered rules, in rule order; it is "Standard transaction" iff
\* no rule triggered, and then score = 0 and classification = neutral
ReasoningListsTriggeredRules ==
    (analysis # <<>> /\ tx.type = "expense") =>
        LET tags == ExpectedTags(tx)
        IN /\ tags # <<>> => analysis[1].reasoning = CommaSeparated(tags)
           /\ (analysis[1].reasoning = "Standard transaction") <=> (tags = <<>>)
           /\ tags = <<>> =>
                 (analysis[1].score = 0 /\ analysis[1].classification = "neutral")

\* a daytime expense in category other, of 34.67, without keyword, was analysed
StandardTransactionWitness ==
    /\ analysis # <<>>
    /\ tx.type = "expense"
    /\ tx.category = "other"
    /\ tx.amount = 3467
    /\ tx.date.hour = 12
    /\ tx.description = DescPlain
    /\ analysis[1].reasoning = "Standard transaction"

\* C25: the score of an expense is at most 85 (essential +30, investment
\* keyword +40, cheap subscription +5, amount < 20 +10), so the upper clamp
\* never acts and score = 100 holds iff the transaction is income; the lower
\* clamp is reachable
ExpenseScoreAtMost85 ==
    analysis # <<>> =>
        /\ tx.type = "expense" =>
              /\ analysis[1].score <= 85
              /\ ExpectedRawScore(tx) <= 85
              /\ analysis[1].score = Max(-100, ExpectedRawScore(tx))
        /\ (analysis[1].score = 100) <=> (tx.type = "income")

\* an essential expense under 20.00 with an investment and a subscription
\* keyword scored 85
HighestExpenseScoreWitness ==
    /\ analysis # <<>>
    /\ tx.type = "expense"
    /\ tx.description = DescGymMonthly
    /\ analysis[1].score = 85

\* an expense whose contributions sum to -160 scored -100
LowestExpenseScoreWitness ==
    /\ analysis # <<>>
    /\ tx.type = "expense"
    /\ ExpectedRawScore(tx) = -160
    /\ analysis[1].score = -100

-----------------------------------------------------------------------------
(* Properties of the predictor, checked under SpecPrediction *)

\* the expense total (cents) of a category in the calendar month i months ago
MonthTotal(ts, today, category, i) ==
    sumAmount(SelectSeq(ts, LAMBDA t :
        t.type = "expense" /\ t.category = category /\ InMonthsAgo(t, today, i)))

ExpectedTrend(recent, oldest) ==
    IF 10 * recent > 11 * oldest THEN "increasing"
    ELSE IF 10 * recent < 9 * oldest THEN "decreasing"
    ELSE "stable"

\* tenths by which the mean is multiplied
ExpectedFactor(trend) ==
    IF trend = "increasing" THEN 11 ELSE IF trend = "decreasing" THEN 9 ELSE 10

\* e is the integer nearest to (sum / 3) * (factor / 10) / 100, the sum in cents
IsRounded(e, sum, factor) ==
    /\ sum * factor - 1500 < 3000 * e
    /\ 3000 * e <= sum * factor + 1500

\* C12: for each category, trend compares the current month's total with the
\* total of two months ago (factors 1.1 and 0.9) and estimated is the mean of
\* the three monthly totals times 1.1, 0.9 or 1, rounded; three totals that
\* fall by more than 10% each month give decreasing and round(0.9 x average)
\* (a category whose estimate rounds to 0 has no entry)
TrendAndEstimate ==
    prediction # <<>> =>
        LET b == prediction[1].categoryBreakdown
        IN \A c \in Categories :
             LET m0 == MonthTotal(transactions, now, c, 0)
                 m1 == MonthTotal(transactions, now, c, 1)
                 m2 == MonthTotal(transactions, now, c, 2)
                 trend == ExpectedTrend(m0, m2)
                 sum == m0 + m1 + m2
                 entries == {k \in 1..Len(b) : b[k].category = c}
             IN /\ Cardinality(entries) <= 1
                /\ \A k \in entries :
                      /\ b[k].trend = trend
                      /\ IsRounded(b[k].estimated, sum, ExpectedFactor(trend))
                /\ entries = {} => IsRounded(0, sum, ExpectedFactor(trend))
                /\ (m2 > 0 /\ 10 * m1 < 9 * m2 /\ 10 * m0 < 9 * m1) =>
                      /\ \A k \in entries :
                            /\ b[k].trend = "decreasing"
                            /\ IsRounded(b[k].estimated, sum, 9)
                      /\ entries = {} => IsRounded(0, sum, 9)

\* food totals falling by more than 10% from each month to the next were predicted
DecreasingTrendWitness ==
    /\ prediction # <<>>
    /\ LET m0 == MonthTotal(transactions, now, "food", 0)
           m1 == MonthTotal(transactions, now, "food", 1)
           m2 == MonthTotal(transactions, now, "food", 2)
       IN m0 > 0 /\ 10 * m1 < 9 * m2 /\ 10 * m0 < 9 * m1
    /\ \E k \in 1..Len(prediction[1].categoryBreakdown) :
          /\ prediction[1].categoryBreakdown[k].category = "food"
          /\ prediction[1].categoryBreakdown[k].trend = "decreasing"

\* the transactions that may influence the prediction: expenses of the
\* current calendar month and of the two before
Relevant(ts, today) ==
    SelectSeq(ts, LAMBDA t :
        t.type = "expense" /\ \E i \in PredictionMonths : InMonthsAgo(t, today, i))

\* C19: only the expenses of the current and the two preceding calendar
\* months influence the prediction. Two lists that differ only in other
\* transactions have the same relevant sublist, so it is enough that every
\* list gives the prediction of its relevant sublist
OnlyRelevantInfluence ==
    prediction # <<>> =>
        LET p == prediction[1]
            q == generateMonthlyPrediction(Relevant(transactions, now), now)
        IN /\ p.categoryBreakdown = q.categoryBreakdown
           /\ p.totalEstimated = q.totalEstimated
           /\ p.riskLevel = q.riskLevel
           /\ p.recommendations = q.recommendations

\* a list with a relevant expense, an income transaction and an expense
\* dated after the cut-off but before the three months was predicted
OnlyRelevantWitness ==
    /\ prediction # <<>>
    /\ Len(prediction[1].categoryBreakdown) > 0
    /\ \E i, j \in 1..Len(transactions) :
          /\ transactions[i].type = "income"
          /\ transactions[j].type = "expense"
          /\ DateGE(transactions[j].date, subMonths(now, 3))
          /\ transactions[j].date.month = 10

RECURSIVE EstimateSum(_, _)
EstimateSum(b, k) == IF k = 0 THEN 0 ELSE b[k].estimated + EstimateSum(b, k - 1)

\* C20: totalEstimated is the sum of the estimated values of the entries of
\* categoryBreakdown; it is non-negative, and 0 iff the breakdown is empty
TotalIsSumOfBreakdown ==
    prediction # <<>> =>
        LET p == prediction[1]
        IN /\ p.totalEstimated = EstimateSum(p.categoryBreakdown, Len(p.categoryBreakdown))
           /\ p.totalEstimated >= 0
           /\ (p.totalEstimated = 0) <=> (p.categoryBreakdown = <<>>)

\* a breakdown of two categories was totalled
TotalWitness ==
    /\ prediction # <<>>
    /\ Len(prediction[1].categoryBreakdown) >= 2
    /\ prediction[1].totalEstimated > 0

-----------------------------------------------------------------------------
(* Properties of the finance store, checked under SpecStore *)

-----------------------------------------------------------------------------
(* Specification of the predictor on lists that spread over four categories *)

MaxPredictionTransactions == 4

\* the transactions of the lists whose risk level and recommendations are
\* examined: food expenses of the previous month (100.00), of the current
\* month and of two months ago (115.00 and 130.00, which with the 100.00 put
\* the total on the two thresholds of the risk level), expenses of 100.00 in
\* three more categories, a small fourth estimate (33.00), and large
\* current-month expenses whose estimates are 200 and 367
RecommendationInputs ==
    {[id |-> 0, amount |-> 10000, description |-> DescPlain, category |-> c,
      date |-> subMonths([Today EXCEPT !.day = 15, !.hour = 12], 1), type |-> "expense"] :
        c \in {"food", "housing", "transportation", "entertainment"}}
    \cup
    {[id |-> 0, amount |-> a, description |-> DescPlain, category |-> "food",
      date |-> subMonths([Today EXCEPT !.day = 15, !.hour = 12], k), type |-> "expense"] :
        a \in {11500, 13000}, k \in {0, 2}}
    \cup
    {[id |-> 0, amount |-> 3300, description |-> DescPlain, category |-> "entertainment",
      date |-> subMonths([Today EXCEPT !.day = 15, !.hour = 12], 1), type |-> "expense"],
     [id |-> 0, amount |-> 54500, description |-> DescPlain, category |-> "food",
      date |-> [Today EXCEPT !.day = 15, !.hour = 12], type |-> "expense"],
     [id |-> 0, amount |-> 100000, description |-> DescPlain, category |-> "food",
      date |-> [Today EXCEPT !.day = 15, !.hour = 12], type |-> "expense"],
     [id |-> 0, amount |-> 100000, description |-> DescPlain, category |-> "housing",
      date |-> [Today EXCEPT !.day = 15, !.hour = 12], type |-> "expense"]}

\* a transaction of the inputs is appended to the list that is handed to the
\* engine, up to max transactions; earlier results are dropped
LoadInput(inputs, max) ==
    /\ Len(transactions) < max
    /\ \E t \in inputs :
          transactions' = Append(transactions, [t EXCEPT !.id = Len(transactions) + 1])
    /\ insights' = <<>>
    /\ prediction' = <<>>
    /\ UNCHANGED <<tx, analysis, now>>
    /\ UNCHANGED <<storeVars, authVars, uploadVars>>

NextRecommendation ==
    LoadInput(RecommendationInputs, MaxPredictionTransactions) \/ GenerateMonthlyPrediction

SpecRecommendation == InitPrediction /\ [][NextRecommendation]_vars

-----------------------------------------------------------------------------
(* Properties of the risk level and the recommendations, checked under
   SpecRecommendation *)

\* the total (cents) of all expense transactions of the previous calendar month
PreviousMonthExpenses(ts, today) ==
    sumAmount(SelectSeq(ts, LAMBDA t : t.type = "expense" /\ InMonthsAgo(t, today, 1)))

\* C21: riskLevel is high if totalEstimated > 1.2 x P, medium if it is
\* > 1.1 x P and not high, low otherwise, P being the total of all expenses
\* of the previous calendar month; with P = 0 the level is high when
\* totalEstimated > 0 and low when it is 0
RiskLevelFromPreviousMonth ==
    prediction # <<>> =>
        LET p == prediction[1]
            P == PreviousMonthExpenses(transactions, now)
            total == 100 * p.totalEstimated
        IN /\ p.riskLevel \in {"high", "medium", "low"}
           /\ (p.riskLevel = "high") <=> (10 * total > 12 * P)
           /\ (p.riskLevel = "medium") <=> (10 * total > 11 * P /\ ~(10 * total > 12 * P))
           /\ (p.riskLevel = "low") <=> ~(10 * total > 11 * P)
           /\ P = 0 =>
                 /\ p.totalEstimated > 0 => p.riskLevel = "high"
                 /\ p.totalEstimated = 0 => p.riskLevel = "low"

\* a total of exactly 1.2 x P was rated medium
MediumRiskWitness ==
    /\ prediction # <<>>
    /\ prediction[1].riskLevel = "medium"
    /\ PreviousMonthExpenses(transactions, now) = 10000
    /\ prediction[1].totalEstimated = 120

ReduceEntry == "Consider reducing discretionary spending this month"

MonitorEntry(category) ==
    "Monitor " \o category \o " spending - it's your largest predicted expense"

UpwardEntry(category) == category \o " spending is trending upward"

StableEntry == "Your spending patterns look stable for next month"

\* the position in the fixed category order
CategoryIndex(category) ==
    CHOOSE c \in 1..Len(TransactionCategory) : TransactionCategory[c] = category

\* the entry with the largest estimate, the first in category order on a tie
LargestEntry(b) ==
    CHOOSE k \in 1..Len(b) :
        \A j \in 1..Len(b) :
            \/ b[j].estimated < b[k].estimated
            \/ /\ b[j].estimated = b[k].estimated
               /\ CategoryIndex(b[k].category) <= CategoryIndex(b[j].category)

\* the trending-upward entries of b[k..], in breakdown order
RECURSIVE UpwardEntries(_, _)
UpwardEntries(b, k) ==
    IF k > Len(b) THEN <<>>
    ELSE (IF b[k].trend = "increasing" /\ b[k].estimated > 200
          THEN <<UpwardEntry(b[k].category)>> ELSE <<>>) \o UpwardEntries(b, k + 1)

\* C22: recommendations is never empty and holds, in this order, the
\* reduce-discretionary-spending entry iff riskLevel = high, one Monitor entry
\* for the category with the largest estimate iff that estimate exceeds 30% of
\* totalEstimated (the first in category order on a tie), and one
\* trending-upward entry per category with trend = increasing and
\* estimated > 200 in breakdown order; the fallback is present iff none of
\* the others was produced and then it is the only entry
RecommendationsInOrder ==
    prediction # <<>> =>
        LET p == prediction[1]
            b == p.categoryBreakdown
            reduce == IF p.riskLevel = "high" THEN <<ReduceEntry>> ELSE <<>>
            monitor == IF b # <<>> /\ 10 * b[LargestEntry(b)].estimated > 3 * p.totalEstimated
                       THEN <<MonitorEntry(b[LargestEntry(b)].category)>> ELSE <<>>
            others == reduce \o monitor \o UpwardEntries(b, 1)
        IN /\ Len(p.recommendations) > 0
           /\ others # <<>> => p.recommendations = others
           /\ others = <<>> => p.recommendations = <<StableEntry>>
           /\ (\E k \in 1..Len(p.recommendations) : p.recommendations[k] = StableEntry)
                 <=> others = <<>>

\* two categories with equal estimates, loaded housing first, gave the four
\* entries reduce, Monitor food, food upward, housing upward
AllRecommendationsWitness ==
    /\ prediction # <<>>
    /\ Len(transactions) = 2
    /\ transactions[1].category = "housing"
    /\ prediction[1].recommendations =
          <<ReduceEntry, MonitorEntry("food"), UpwardEntry("food"), UpwardEntry("housing")>>

\* C26: a breakdown of 1 to 3 entries has a largest estimate above 30% of
\* totalEstimated, so the Monitor entry of that category is recommended and
\* the stable-spending fallback is not; the fallback appears only with an
\* empty breakdown or with at least 4 categories
FallbackNeedsFourCategories ==
    prediction # <<>> =>
        LET p == prediction[1]
            b == p.categoryBreakdown
            recs == {p.recommendations[k] : k \in 1..Len(p.recommendations)}
        IN /\ Len(b) \in 1..3 =>
                 /\ 10 * b[LargestEntry(b)].estimated > 3 * p.totalEstimated
                 /\ MonitorEntry(b[LargestEntry(b)].category) \in recs
                 /\ StableEntry \notin recs
           /\ StableEntry \in recs => (Len(b) = 0 \/ Len(b) >= 4)

\* three categories at low risk got the Monitor entry alone
ThreeCategoriesWitness ==
    /\ prediction # <<>>
    /\ Len(prediction[1].categoryBreakdown) = 3
    /\ prediction[1].riskLevel = "low"
    /\ Len(prediction[1].recommendations) = 1
    /\ prediction[1].recommendations[1] =
          MonitorEntry(prediction[1].categoryBreakdown[1].category)

-----------------------------------------------------------------------------
(* Specification of the aggregator on lists dated around the bucket limits *)

MaxBucketTransactions == 2

\* the dates of the lists whose buckets are examined, seen from Today
\* (2026-01-31 10:00): inside the current month, one hour short of 30 days
\* ago, 30 days and 22 hours ago, the middle of the previous month, 60 days
\* and 22 hours ago, 61 days and 22 hours ago, 77 days ago, and next month;
\* on each of them a small food expense (score 40) and a large shopping
\* expense (score -30)
BucketInputs ==
    LET BucketDates ==
            {[year |-> 2026, month |-> 1, day |-> 15, hour |-> 12],
             [year |-> 2026, month |-> 1, day |-> 1, hour |-> 11],
             [year |-> 2025, month |-> 12, day |-> 31, hour |-> 12],
             [year |-> 2025, month |-> 12, day |-> 15, hour |-> 12],
             [year |-> 2025, month |-> 12, day |-> 1, hour |-> 12],
             [year |-> 2025, month |-> 11, day |-> 30, hour |-> 12],
             [year |-> 2025, month |-> 11, day |-> 15, hour |-> 12],
             [year |-> 2026, month |-> 2, day |-> 15, hour |-> 12]}
    IN {[id |-> 0, amount |-> 100, description |-> DescPlain, category |-> "food",
         date |-> d, type |-> "expense"] : d \in BucketDates}
       \cup
       {[id |-> 0, amount |-> 25000, description |-> DescPlain,
         category |-> "shopping", date |-> d, type |-> "expense"] : d \in BucketDates}

NextBuckets == LoadInput(BucketInputs, MaxBucketTransactions) \/ AnalyzeAllPurchases

SpecBuckets == Init /\ [][NextBuckets]_vars

-----------------------------------------------------------------------------
(* Properties of the trend buckets, checked under SpecBuckets *)

\* the number of leap days of the years before y
LeapDaysBefore(y) == ((y - 1) \div 4) - ((y - 1) \div 100) + ((y - 1) \div 400)

RECURSIVE DaysBeforeMonth(_, _)
DaysBeforeMonth(y, m) ==
    IF m = 1 THEN 0 ELSE DaysInMonth(y, m - 1) + DaysBeforeMonth(y, m - 1)

\* the number of the day of d, counted from a fixed day
DayNumber(d) == 365 * (d.year - 1) + LeapDaysBefore(d.year) + DaysBeforeMonth(d.year, d.month) + d.day

\* the hours from d to today (negative for a date after today)
HoursAgo(d, today) == (DayNumber(today) - DayNumber(d)) * 24 + (today.hour - d.hour)

\* the analyses whose transactions are dated more than from and at most to
\* days before today
DatedDaysAgo(analyses, today, from, to) ==
    SelectSeq(analyses, LAMBDA a :
        /\ HoursAgo(a.transaction.date, today) > from * 24
        /\ HoursAgo(a.transaction.date, today) <= to * 24)

\* the mean score of a list as a quotient in lowest terms, 0 for the empty list
MeanScore(as) == IF as = <<>> THEN Rat(0, 1) ELSE Rat(sumScore(as), Len(as))

\* C23: each analysis falls in at most one of the buckets recent (the last 30
\* days) and older (31 to 60 days ago); improvementScore is the mean recent
\* score less the mean older score, the mean of an empty bucket being 0, and
\* spendingPattern is improving above 10, declining below -10, stable otherwise
BucketsByDays ==
    insights # <<>> =>
        LET analyses == AllPurchases(insights[1])
            recent == SelectSeq(analyses, LAMBDA a :
                          /\ HoursAgo(a.transaction.date, now) >= 0
                          /\ HoursAgo(a.transaction.date, now) <= 30 * 24)
            older == DatedDaysAgo(analyses, now, 30, 60)
            expected == RatSub(MeanScore(recent), MeanScore(older))
            t == insights[1].trends
        IN /\ t.improvementScore = expected
           /\ t.spendingPattern =
                 (IF expected.num > 10 * expected.den THEN "improving"
                  ELSE IF expected.num < (0 - 10) * expected.den THEN "declining"
                  ELSE "stable")

-----------------------------------------------------------------------------
(* Specification of the aggregator on lists long enough for the frequency
   thresholds *)

MaxTrendTransactions == 5

\* the transactions of the lists whose risk areas and strengths are examined,
\* all of the current month: an income transaction (good, essential), a food
\* expense of 1.00 (good, essential), a housing expense of 500.00 (good,
\* essential), a 'GYM pass' of 30.00 (good, investment), a shopping expense of
\* 250.00 (bad, impulse) and an entertainment expense of 150.00 (bad,
\* entertainment)
TrendInputs ==
    {[id |-> 0, amount |-> 450000, description |-> DescPlain, category |-> "income",
      date |-> [Today EXCEPT !.day = 15, !.hour = 12], type |-> "income"],
     [id |-> 0, amount |-> 100, description |-> DescPlain, category |-> "food",
      date |-> [Today EXCEPT !.day = 15, !.hour = 12], type |-> "expense"],
     [id |-> 0, amount |-> 50000, description |-> DescPlain, category |-> "housing",
      date |-> [Today EXCEPT !.day = 15, !.hour = 12], type |-> "expense"],
     [id |-> 0, amount |-> 3000, description |-> DescGym, category |-> "other",
      date |-> [Today EXCEPT !.day = 15, !.hour = 12], type |-> "expense"],
     [id |-> 0, amount |-> 25000, description |-> DescPlain, category |-> "shopping",
      date |-> [Today EXCEPT !.day = 15, !.hour = 12], type |-> "expense"],
     [id |-> 0, amount |-> 15000, description |-> DescPlain, category |-> "entertainment",
      date |-> [Today EXCEPT !.day = 15, !.hour = 12], type |-> "expense"]}

NextTrends == LoadInput(TrendInputs, MaxTrendTransactions) \/ AnalyzeAllPurchases

SpecTrends == Init /\ [][NextTrends]_vars

-----------------------------------------------------------------------------
(* Properties of the risk areas and strengths, checked under SpecTrends *)

AnalysisCategories == {"essential", "investment", "entertainment", "impulse", "waste"}

\* the number of purchases of a list with an analysis category
Occurrences(ps, c) == Cardinality({k \in 1..Len(ps) : ps[k].category = c})

\* the number of entries of a list equal to a string
Entries(list, s) == Cardinality({k \in 1..Len(list) : list[k] = s})

\* C24: riskAreas holds exactly one entry "Frequent <category> purchases" per
\* analysis category occurring at least 3 times among the bad purchases and
\* nothing else; strengths holds exactly one entry "Strong <category>
\* spending habits" per analysis category occurring at least 5 times among
\* the good purchases (income counting as essential), "Overall positive
\* spending patterns" iff goodBadRatio > 2, and nothing else
RiskAreasAndStrengths ==
    insights # <<>> =>
        LET r == insights[1]
            t == r.trends
            frequentBad == {c \in AnalysisCategories : Occurrences(r.badPurchases, c) >= 3}
            frequentGood == {c \in AnalysisCategories : Occurrences(r.goodPurchases, c) >= 5}
            overall == r.goodBadRatio.num > 2 * r.goodBadRatio.den
        IN /\ \A c \in AnalysisCategories :
                 /\ Entries(t.riskAreas, "Frequent " \o c \o " purchases")
                       = (IF c \in frequentBad THEN 1 ELSE 0)
                 /\ Entries(t.strengths, "Strong " \o c \o " spending habits")
                       = (IF c \in frequentGood THEN 1 ELSE 0)
           /\ Len(t.riskAreas) = Cardinality(frequentBad)
           /\ Entries(t.strengths, "Overall positive spending patterns")
                 = (IF overall THEN 1 ELSE 0)
           /\ Len(t.strengths) = Cardinality(frequentGood) + (IF overall THEN 1 ELSE 0)

\* five good essential purchases, an income transaction among them, and no
\* bad purchase gave both strength entries
StrengthsWitness ==
    /\ insights # <<>>
    /\ Len(transactions) = 5
    /\ \E k \in 1..5 : transactions[k].type = "income"
    /\ insights[1].trends.strengths = <<"Strong essential spending habits", "Overall positive spending patterns">>

-----------------------------------------------------------------------------
(* Properties of the transaction list of the finance store, checked under
   SpecStore *)

NewestFirst(ts) ==
    \A i, j \in 1..Len(ts) : i < j => DateKey(ts[i].date) >= DateKey(ts[j].date)

\* the first n transactions are n transactions with the latest dates
LatestFirst(state, n) ==
    LET recent == getRecentTransactions(state, n)
    IN \A i \in 1..Len(recent) :
          \A j \in (Len(recent) + 1)..Len(state.transactions) :
              DateKey(recent[i].date) >= DateKey(state.transactions[j].date)

\* C27: addTransaction, updateTransaction (also of the date) and
\* deleteTransaction keep a newest-first transaction list newest first, so
\* getRecentTransactions(n) returns the n transactions with the latest dates
EditsKeepNewestFirst ==
    [][((AddTransaction \/ UpdateTransaction \/ DeleteTransaction)
            /\ NewestFirst(store.transactions)) =>
          /\ NewestFirst(store'.transactions)
          /\ \A n \in 0..MaxStoreTransactions : LatestFirst(store', n)]_vars

-----------------------------------------------------------------------------
(* Specification of the authentication provider and the login form *)

InitAuthProvider ==
    /\ tx = NoTransaction
    /\ analysis = <<>>
    /\ transactions = <<>>
    /\ now = Today
    /\ insights = <<>>
    /\ prediction = <<>>
    /\ store = initialState
    /\ storage = <<>>
    /\ session = 1
    /\ row = <<>>
    /\ parsed = <<>>
    /\ InitAuth

NextAuth == HandleChange \/ HandleSubmit \/ Signup \/ Resume \/ Logout

SpecAuth == InitAuthProvider /\ [][NextAuth]_vars

-----------------------------------------------------------------------------
(* Specification of the parser on one row of an uploaded file *)

\* the descriptions and the amount strings of the rows, by name
RowFields ==
    [grocery |-> <<"G", "r", "o", "c", "e", "r", "y", " ", "S", "t", "o", "r", "e">>,
     rent |-> <<"R", "e", "n", "t", " ", "p", "a", "y", "m", "e", "n", "t">>,
     uber |-> <<"U", "B", "E", "R", " ", "t", "r", "i", "p">>,
     netflix |-> <<"N", "e", "t", "f", "l", "i", "x">>,
     water |-> <<"W", "a", "t", "e", "r", " ", "b", "i", "l", "l">>,
     amazon |-> <<"A", "m", "a", "z", "o", "n", " ", "o", "r", "d", "e", "r">>,
     pharmacy |-> <<"P", "h", "a", "r", "m", "a", "c", "y">>,
     misc |-> <<" ", "M", "i", "s", "c", " ">>,
     salary |-> <<"S", "a", "l", "a", "r", "y">>,
     deposit |-> <<"D", "e", "p", "o", "s", "i", "t", " ", "f", "e", "e">>,
     negative |-> <<"-", "5", "0", ".", "0", "0">>,
     positive |-> <<"5", "0", ".", "0", "0">>,
     parentheses |-> <<"(", "5", "0", ".", "0", "0", ")">>,
     zero |-> <<"0">>,
     currency |-> <<"-", "$", "1", ",", "2", "3", "4", ".", "5", "6">>,
     text |-> <<"a", "b", "c">>]

InitUpload ==
    /\ tx = NoTransaction
    /\ analysis = <<>>
    /\ transactions = <<>>
    /\ now = Today
    /\ insights = <<>>
    /\ prediction = <<>>
    /\ store = initialState
    /\ storage = <<>>
    /\ session = 1
    /\ InitAuth
    /\ row \in [Date : {"2026-01-15", "someday", ""},
                Description : {RowFields[f] : f \in {"grocery", "rent", "uber", "netflix",
                                   "water", "amazon", "pharmacy", "misc", "salary",
                                   "deposit"}} \cup {<<>>},
                Amount : {RowFields[f] : f \in {"negative", "positive", "parentheses",
                              "zero", "currency", "text"}} \cup {<<>>}]
    /\ parsed = <<>>

ParseRow ==
    /\ parsed = <<>>
    /\ parsed' = <<parseRow(row)>>
    /\ UNCHANGED row
    /\ UNCHANGED <<engineVars, storeVars, authVars>>

SpecUpload == InitUpload /\ [][ParseRow]_vars

-----------------------------------------------------------------------------
(* Properties of signup and of the login form, checked under SpecAuth *)

SameEmail(a, b) == toLowerCase(a) = toLowerCase(b)

NoTwoUsersWithOneEmail(users) ==
    \A i, j \in 1..Len(users) : i # j => ~SameEmail(users[i].email, users[j].email)

\* a call has just returned
Returned == Len(outcomes') = Len(outcomes) + 1

\* C28: whatever the interleaving of signup calls, two calls for one email in
\* different letter case in flight together included, the stored list never
\* holds two users whose emails are equal ignoring case; a call for an email
\* that is already stored returns the account-already-exists error and
\* stores no user, password or token, and a call that succeeds stores one user
SignupKeepsEmailsUnique ==
    [][/\ NoTwoUsersWithOneEmail(authStorage'.users)
       /\ (Returned /\ outcomes'[Len(outcomes')].call.kind = "signup") =>
             LET last == outcomes'[Len(outcomes')]
                 taken == \E k \in 1..Len(authStorage.users) :
                              SameEmail(authStorage.users[k].email, last.call.email)
             IN /\ taken =>
                      /\ ~last.result.success
                      /\ last.result.error = "An account with this email already exists."
                      /\ authStorage' = authStorage
                      /\ auth'.user = auth.user
                /\ ~taken =>
                      /\ last.result.success
                      /\ Len(authStorage'.users) = Len(authStorage.users) + 1]_vars

\* two signup calls for one email in different letter case were in flight
\* together; the first to end its delay succeeded and the other got the error
ConcurrentSignupWitness ==
    /\ Len(outcomes) = 2
    /\ outcomes[1].call.kind = "signup"
    /\ outcomes[2].call.kind = "signup"
    /\ outcomes[1].inFlight = <<outcomes[2].call>>
    /\ outcomes[1].call.email # outcomes[2].call.email
    /\ SameEmail(outcomes[1].call.email, outcomes[2].call.email)
    /\ outcomes[1].result.success
    /\ ~outcomes[2].result.success
    /\ Len(authStorage.users) = 2

\* C29: when a login attempt submitted from the login form fails, the form
\* that submitted it is still mounted when the attempt completes, and the
\* login form on screen then shows the error message that login returned
FailedLoginShowsError ==
    [][(/\ Returned
        /\ outcomes'[Len(outcomes')].call.kind = "login"
        /\ ~outcomes'[Len(outcomes')].result.success) =>
          /\ outcomes'[Len(outcomes')].call.form = "mounted"
          /\ screen'.form = "login"
          /\ screen'.submitError = outcomes'[Len(outcomes')].result.error]_vars

-----------------------------------------------------------------------------
(* Properties of the row parser, checked under SpecUpload *)

\* the keyword group of the descriptions of the inputs, read off their text
KeywordCategory(description) ==
    CASE description = RowFields.grocery -> "food"
      [] description = RowFields.rent -> "housing"
      [] description = RowFields.uber -> "transportation"
      [] description = RowFields.netflix -> "entertainment"
      [] description = RowFields.water -> "utilities"
      [] description = RowFields.amazon -> "shopping"
      [] description = RowFields.pharmacy -> "healthcare"
      [] description = RowFields.misc -> "other"
      [] OTHER -> "income"

IncomeDescriptions == {RowFields.salary, RowFields.deposit}

NegativeAmounts == {RowFields.negative, RowFields.parentheses, RowFields.currency}

PositiveAmounts == {RowFields.positive}

\* C30: a row with a negative raw amount becomes an expense whose category
\* follows the keywords of its description, the first matching group in the
\* fixed order winning ('grocery' gives food); the category income is given
\* only to rows whose description contains salary, income or deposit or
\* whose raw amount is positive
ExpenseRowCategoryFromKeywords ==
    (parsed # <<>> /\ "category" \in DOMAIN parsed[1]) =>
        /\ row.Amount \in NegativeAmounts =>
              /\ parsed[1].type = "expense"
              /\ parsed[1].category = KeywordCategory(row.Description)
        /\ parsed[1].category = "income" =>
              (row.Description \in IncomeDescriptions \/ row.Amount \in PositiveAmounts)

====
